---- MODULE Spec2Model ----
(***************************************************************************)
(* Model of the SHTP client of the BNO08x driver (src/lib/bno085.py):      *)
(* packet codec, channel sequencer, report batch splitter, report          *)
(* dispatcher and the initialization sequencer.                            *)
(*                                                                         *)
(* Bytes are integers 0..255, buffers are sequences of bytes (index 1 of   *)
(* a sequence is offset 0 of the Python buffer).  The device and the bus   *)
(* are the environment: every bus read draws what the device returns from  *)
(* a finite set of wire packets, every bus transaction may fail.           *)
(***************************************************************************)
EXTENDS Integers, Sequences, FiniteSets, TLC

\* ---------------------------------------------------------------- constants
BNO_CHANNEL_SHTP_COMMAND == 0
BNO_CHANNEL_EXE == 1
BNO_CHANNEL_CONTROL == 2
BNO_CHANNEL_INPUT_SENSOR_REPORTS == 3

SET_FEATURE_COMMAND == 253
GET_FEATURE_RESPONSE == 252
BASE_TIMESTAMP == 251
TIMESTAMP_REBASE == 250
SHTP_REPORT_PRODUCT_ID_RESPONSE == 248
SHTP_REPORT_PRODUCT_ID_REQUEST == 249
COMMAND_REQUEST == 242
COMMAND_RESPONSE == 241

BNO_REPORT_ACCELEROMETER == 1
BNO_REPORT_GYROSCOPE == 2
BNO_REPORT_MAGNETOMETER == 3
BNO_REPORT_LINEAR_ACCELERATION == 4
BNO_REPORT_ROTATION_VECTOR == 5
BNO_REPORT_GRAVITY == 6
BNO_REPORT_GAME_ROTATION_VECTOR == 8
BNO_REPORT_GEOMAGNETIC_ROTATION_VECTOR == 9
BNO_REPORT_STEP_COUNTER == 17
BNO_REPORT_STABILITY_CLASSIFIER == 19
BNO_REPORT_RAW_ACCELEROMETER == 20
BNO_REPORT_RAW_GYROSCOPE == 21
BNO_REPORT_RAW_MAGNETOMETER == 22
BNO_REPORT_SHAKE_DETECTOR == 25
BNO_REPORT_ACTIVITY_CLASSIFIER == 30

BNO08X_CMD_RESET == 1
BNO_HEADER_LEN == 4
InitAttempts == 3
SoftResetReads == 3
SeqModulus == 256
ControlReportFloor == 240
DATA_BUFFER_SIZE == 512

\* the clock of the model counts seconds; the timeouts are in seconds
DEFAULT_REPORT_INTERVAL == 50000
FEATURE_ENABLE_TIMEOUT == 2
DEFAULT_TIMEOUT == 2
PACKET_READ_TIMEOUT == 2
\* the default timeout of _wait_for_packet_type
WAIT_TYPE_TIMEOUT == 5
\* the clock values of the model: time.ticks_ms() wraps at TicksPeriod
TicksPeriod == 16
ENABLED_ACTIVITIES == 511
\* enable_feature drains with max_packets=10
MaxPackets == 10

\* the six channels, indices of _sequence_number
Channels == 0 .. 5

\* _REPORT_LENGTHS: control report id -> length in bytes
REPORT_LENGTHS ==
  (SHTP_REPORT_PRODUCT_ID_RESPONSE :> 16) @@ (GET_FEATURE_RESPONSE :> 17) @@
  (COMMAND_RESPONSE :> 16) @@ (BASE_TIMESTAMP :> 5) @@ (TIMESTAMP_REBASE :> 5)

\* _AVAIL_SENSOR_REPORTS: sensor report id -> its third field, the length
AVAIL_SENSOR_REPORTS ==
  (BNO_REPORT_ACCELEROMETER :> 10) @@ (BNO_REPORT_GRAVITY :> 10) @@
  (BNO_REPORT_GYROSCOPE :> 10) @@ (BNO_REPORT_MAGNETOMETER :> 10) @@
  (BNO_REPORT_LINEAR_ACCELERATION :> 10) @@ (BNO_REPORT_ROTATION_VECTOR :> 14) @@
  (BNO_REPORT_GEOMAGNETIC_ROTATION_VECTOR :> 14) @@
  (BNO_REPORT_GAME_ROTATION_VECTOR :> 12) @@ (BNO_REPORT_STEP_COUNTER :> 12) @@
  (BNO_REPORT_SHAKE_DETECTOR :> 6) @@ (BNO_REPORT_STABILITY_CLASSIFIER :> 6) @@
  (BNO_REPORT_ACTIVITY_CLASSIFIER :> 16) @@ (BNO_REPORT_RAW_ACCELEROMETER :> 16) @@
  (BNO_REPORT_RAW_GYROSCOPE :> 16) @@ (BNO_REPORT_RAW_MAGNETOMETER :> 16)

\* ------------------------------------------------------------- byte helpers
\* struct.unpack_from("<H", b, off)
U16LE(b, off) == b[off + 1] + 256 * b[off + 2]

\* struct.pack("<H", v)
PackU16LE(v) == << v % 256, (v \div 256) % 256 >>

Max(a, b) == IF a > b THEN a ELSE b

Zeros(n) == IF n <= 0 THEN << >> ELSE [ i \in 1..n |-> 0 ]

RECURSIVE Flatten(_)
Flatten(ss) == IF ss = << >> THEN << >> ELSE Head(ss) \o Flatten(Tail(ss))

\* ------------------------------------------------------------- packet codec
\* Packet.header_from_buffer
HeaderFromBufferUnmasked(packet_bytes) ==
  LET packet_byte_count == U16LE(packet_bytes, 0)
  IN  [ channel_number    |-> packet_bytes[3],
        sequence_number   |-> packet_bytes[4],
        data_length       |-> Max(0, packet_byte_count - 4),
        packet_byte_count |-> packet_byte_count ]
HeaderFromBuffer(packet_bytes) ==
  LET packet_byte_count == U16LE(packet_bytes, 0) % 32768
  IN  [ channel_number    |-> packet_bytes[3],
        sequence_number   |-> packet_bytes[4],
        data_length       |-> Max(0, packet_byte_count - 4),
        packet_byte_count |-> packet_byte_count ]

\* Packet.__init__: header and the data_length bytes after it
Packet(packet_bytes) ==
  LET header == HeaderFromBuffer(packet_bytes)
  IN  [ header |-> header,
        data   |-> SubSeq(packet_bytes, BNO_HEADER_LEN + 1,
                          BNO_HEADER_LEN + header.data_length) ]

\* Packet.is_error
IsError(header) ==
  IF header.channel_number > 5 THEN TRUE
  ELSE IF header.packet_byte_count = 65535 /\ header.sequence_number = 255
  THEN TRUE
  ELSE FALSE

\* the bytes _send_packet puts in _data_buffer and writes to the bus
SendBufferBare(channel, seq, data) ==
  PackU16LE(Len(data)) \o << channel, seq >> \o data
SendBuffer(channel, seq, data) ==
  PackU16LE(Len(data) + 4) \o << channel, seq >> \o data

\* the sequence byte _send_packet puts in byte 3 of the header
HeaderSeqPreIncrement(seqs, channel) == (seqs[channel] + 1) % SeqModulus
HeaderSeq(seqs, channel) == seqs[channel]

\* the value _send_packet stores back after a successful write
NextSequenceNoWrap(s) == (s + 1) % (SeqModulus - 1)
NextSequence(s) == (s + 1) % SeqModulus

\* ---------------------------------------------------- report batch splitter
KnownReport(report_id) ==
  IF report_id < ControlReportFloor
  THEN report_id \in DOMAIN AVAIL_SENSOR_REPORTS
  ELSE report_id \in DOMAIN REPORT_LENGTHS

\* _report_length (defined for the ids of the two tables; KeyError otherwise)
ReportLength(report_id) ==
  IF report_id < ControlReportFloor
  THEN AVAIL_SENSOR_REPORTS[report_id]
  ELSE REPORT_LENGTHS[report_id]

\* Python slice b[lo:hi] (offsets; the end is clipped to the buffer)
Slice(b, lo, hi) == SubSeq(b, lo + 1, IF hi < Len(b) THEN hi ELSE Len(b))

\* the test of _separate_batch that raises "Unprocessable Batch bytes"
BatchTruncatedIgnored(unprocessed_byte_count, required_bytes) == FALSE
BatchTruncated(unprocessed_byte_count, required_bytes) ==
  unprocessed_byte_count < required_bytes

\* the offset of the report after the one at next_byte_index
NextByteIndexSkipping(next_byte_index, required_bytes) ==
  next_byte_index + required_bytes + 1
NextByteIndex(next_byte_index, required_bytes) ==
  next_byte_index + required_bytes

\* _separate_batch from offset next_byte_index on: appends [id, slice] pairs
\* to report_slices; error is "KeyError" for an id of neither table and
\* "BatchFramingError" for RuntimeError("Unprocessable Batch bytes")
RECURSIVE SeparateBatchFrom(_, _, _)
SeparateBatchFrom(packet, next_byte_index, report_slices) ==
  IF ~(next_byte_index < packet.header.data_length)
  THEN [ slices |-> report_slices, error |-> "none" ]
  ELSE LET report_id == packet.data[next_byte_index + 1]
       IN  IF ~KnownReport(report_id)
           THEN [ slices |-> report_slices, error |-> "KeyError" ]
           ELSE LET required_bytes == ReportLength(report_id)
                    unprocessed_byte_count ==
                      packet.header.data_length - next_byte_index
                    report_slice == Slice(packet.data, next_byte_index,
                                          next_byte_index + required_bytes)
                IN  IF BatchTruncated(unprocessed_byte_count, required_bytes)
                    THEN [ slices |-> report_slices,
                           error  |-> "BatchFramingError" ]
                    ELSE SeparateBatchFrom(
                           packet,
                           NextByteIndex(next_byte_index, required_bytes),
                           Append(report_slices,
                                  << report_slice[1], report_slice >>))

SeparateBatch(packet, report_slices) ==
  SeparateBatchFrom(packet, 0, report_slices)

\* ---------------------------------------------------------- readings values
\* A stored value is a tagged tuple: <<"int", n>>, <<"bool", 0 or 1>>,
\* <<"vec", x, y, z>>, <<"quat", i, j, k, r>>, <<"str", label index>>,
\* <<"act", most likely index, nine confidences>>.  Vector components are
\* kept as the raw 16-bit integers (the power-of-two scalar is a fixed
\* factor per report id).
Truthy(v) ==
  CASE v[1] = "bool" -> v[2] = 1
    [] v[1] = "int"  -> v[2] # 0
    [] OTHER         -> TRUE

RAW_REPORTS ==
  (BNO_REPORT_RAW_ACCELEROMETER :> BNO_REPORT_ACCELEROMETER) @@
  (BNO_REPORT_RAW_GYROSCOPE :> BNO_REPORT_GYROSCOPE) @@
  (BNO_REPORT_RAW_MAGNETOMETER :> BNO_REPORT_MAGNETOMETER)

\* number of 16-bit fields of a generic report (_AVAIL_SENSOR_REPORTS[id][1])
FieldCount(report_id) ==
  IF report_id \in { BNO_REPORT_ROTATION_VECTOR,
                     BNO_REPORT_GEOMAGNETIC_ROTATION_VECTOR,
                     BNO_REPORT_GAME_ROTATION_VECTOR }
  THEN 4
  ELSE IF report_id \in { BNO_REPORT_STEP_COUNTER, BNO_REPORT_SHAKE_DETECTOR,
                          BNO_REPORT_STABILITY_CLASSIFIER,
                          BNO_REPORT_ACTIVITY_CLASSIFIER }
       THEN 1
       ELSE 3

S16(u) == IF u >= 32768 THEN u - 65536 ELSE u

\* _parse_sensor_report_data: the fields at offset 4, 6, ... and the accuracy
ParseSensorReportData(report_bytes) ==
  LET report_id == report_bytes[1]
      count     == FieldCount(report_id)
      field(i)  == LET u == U16LE(report_bytes, 4 + 2 * (i - 1))
                   IN  IF report_id \in DOMAIN RAW_REPORTS THEN u ELSE S16(u)
  IN  [ data     |-> << IF count = 4 THEN "quat" ELSE "vec" >>
                     \o [ i \in 1 .. count |-> field(i) ],
        accuracy |-> report_bytes[3] % 4 ]

\* _parse_step_couter_report
ParseStepCounterReport(report_bytes) == << "int", U16LE(report_bytes, 8) >>

\* _parse_shake_report: (bitfield & 0x111) > 0
ParseShakeReport(report_bytes) ==
  LET shake_bitfield == U16LE(report_bytes, 4)
  IN  << "bool",
         IF (shake_bitfield % 2) = 1
            \/ ((shake_bitfield \div 16) % 2) = 1
            \/ ((shake_bitfield \div 256) % 2) = 1
         THEN 1 ELSE 0 >>

\* _INITIAL_REPORTS.get(feature_report_id, (0.0, 0.0, 0.0))
InitialReport(feature_report_id) ==
  CASE feature_report_id = BNO_REPORT_ACTIVITY_CLASSIFIER ->
         << "act", 0, -1, -1, -1, -1, -1, -1, -1, -1, -1 >>
    [] feature_report_id = BNO_REPORT_STABILITY_CLASSIFIER -> << "str", 0 >>
    [] feature_report_id \in { BNO_REPORT_ROTATION_VECTOR,
                               BNO_REPORT_GAME_ROTATION_VECTOR,
                               BNO_REPORT_GEOMAGNETIC_ROTATION_VECTOR } ->
         << "quat", 0, 0, 0, 0 >>
    [] OTHER -> << "vec", 0, 0, 0 >>

\* dict assignment d[k] = v
PutAlone(d, k, v) == [ x \in { k } |-> v ]
Put(d, k, v) == [ x \in (DOMAIN d) \cup { k } |-> IF x = k THEN v ELSE d[x] ]

\* ------------------------------------------------------- report dispatcher
SAVE_DCD == 6
ME_CALIBRATE == 7
StabilityLabels == 5
ActivityLabels == 9

\* The dispatcher works on the part of the client a report can change:
\* st = [readings, dcd_saved_at, me_calibration_started_at,
\*       magnetometer_accuracy]; now is the value of time.ticks_ms().

\* _handle_command_response
HandleCommandResponseLenient(st, report_bytes, now) ==
  LET command        == report_bytes[3]
      command_status == report_bytes[6]
      st1 == IF command = ME_CALIBRATE /\ command_status = 0
             THEN [ st EXCEPT !.me_calibration_started_at = now ]
             ELSE st
  IN  IF command = SAVE_DCD
      THEN [ st |-> [ st1 EXCEPT !.dcd_saved_at = now ], error |-> "none" ]
      ELSE [ st |-> st1, error |-> "none" ]
HandleCommandResponse(st, report_bytes, now) ==
  LET command        == report_bytes[3]
      command_status == report_bytes[6]
      st1 == IF command = ME_CALIBRATE /\ command_status = 0
             THEN [ st EXCEPT !.me_calibration_started_at = now ]
             ELSE st
  IN  IF command = SAVE_DCD
      THEN IF command_status = 0
           THEN [ st |-> [ st1 EXCEPT !.dcd_saved_at = now ], error |-> "none" ]
           ELSE [ st |-> st1, error |-> "CalibrationSaveFailed" ]
      ELSE [ st |-> st1, error |-> "none" ]

\* _handle_control_report
HandleControlReportOnce(st, report_id, report_bytes, now) ==
  LET st1 == IF /\ report_id = GET_FEATURE_RESPONSE
                /\ report_bytes[2] \notin DOMAIN st.readings
             THEN [ st EXCEPT !.readings =
                      Put(@, report_bytes[2], InitialReport(report_bytes[2])) ]
             ELSE st
  IN  IF report_id = COMMAND_RESPONSE
      THEN HandleCommandResponse(st1, report_bytes, now)
      ELSE [ st |-> st1, error |-> "none" ]
HandleControlReport(st, report_id, report_bytes, now) ==
  LET st1 == IF report_id = GET_FEATURE_RESPONSE
             THEN [ st EXCEPT !.readings =
                      Put(@, report_bytes[2], InitialReport(report_bytes[2])) ]
             ELSE st
  IN  IF report_id = COMMAND_RESPONSE
      THEN HandleCommandResponse(st1, report_bytes, now)
      ELSE [ st |-> st1, error |-> "none" ]

\* `not self._readings.get(BNO_REPORT_SHAKE_DETECTOR)` is false: the stored
\* value is kept and the decoded one dropped
KeepShakeNever(stored) == FALSE
KeepShake(stored) ==
  /\ BNO_REPORT_SHAKE_DETECTOR \in DOMAIN stored
  /\ Truthy(stored[BNO_REPORT_SHAKE_DETECTOR])

\* _process_report
ProcessReportShared(st, report_id, report_bytes, now) ==
  [ st    |-> [ st EXCEPT !.readings =
                  [ k \in (DOMAIN @) \cup { report_id } |->
                      << "int", report_bytes[1] >> ] ],
    error |-> "none" ]
ProcessReport(st, report_id, report_bytes, now) ==
  IF report_id >= ControlReportFloor
  THEN HandleControlReport(st, report_id, report_bytes, now)
  ELSE IF report_id = BNO_REPORT_STEP_COUNTER
  THEN [ st |-> [ st EXCEPT !.readings =
                    Put(@, report_id, ParseStepCounterReport(report_bytes)) ],
         error |-> "none" ]
  ELSE IF report_id = BNO_REPORT_SHAKE_DETECTOR
  THEN [ st |-> IF KeepShake(st.readings)
                THEN st
                ELSE [ st EXCEPT !.readings =
                         Put(@, report_id, ParseShakeReport(report_bytes)) ],
         error |-> "none" ]
  ELSE IF report_id = BNO_REPORT_STABILITY_CLASSIFIER
  THEN IF report_bytes[5] >= StabilityLabels
       THEN [ st |-> st, error |-> "IndexError" ]
       ELSE [ st |-> [ st EXCEPT !.readings =
                         Put(@, report_id, << "str", report_bytes[5] >>) ],
              error |-> "none" ]
  ELSE IF report_id = BNO_REPORT_ACTIVITY_CLASSIFIER
  THEN IF report_bytes[6] >= ActivityLabels
       THEN [ st |-> st, error |-> "IndexError" ]
       ELSE [ st |-> [ st EXCEPT !.readings =
                         Put(@, report_id,
                             << "act", report_bytes[6] >>
                             \o [ i \in 1 .. 9 |->
                                    10 * (report_bytes[5] % 128)
                                    + report_bytes[6 + i] ]) ],
              error |-> "none" ]
  ELSE LET parsed == ParseSensorReportData(report_bytes)
       IN  [ st |-> [ st EXCEPT
                        !.readings = Put(@, report_id, parsed.data),
                        !.magnetometer_accuracy =
                          IF report_id = BNO_REPORT_MAGNETOMETER
                          THEN parsed.accuracy ELSE @ ],
             error |-> "none" ]

\* the loop of _handle_packet: pop the last slice and process it, until the
\* list is empty or a report raises (the popped slice is then gone, the ones
\* below it stay in _packet_slices).  The decoders unpack at fixed offsets
\* within the table length of the id; unpack_from raises on a shorter slice.
RECURSIVE ProcessSlices(_, _, _)
ProcessSlices(st, packet_slices, now) ==
  IF Len(packet_slices) = 0
  THEN [ st |-> st, slices |-> packet_slices, error |-> "none" ]
  ELSE LET top  == packet_slices[Len(packet_slices)]
           rest == SubSeq(packet_slices, 1, Len(packet_slices) - 1)
           r    == ProcessReport(st, top[1], top[2], now)
       IN  IF Len(top[2]) < ReportLength(top[1])
           THEN [ st |-> st, slices |-> rest, error |-> "struct.error" ]
           ELSE IF r.error # "none"
           THEN [ st |-> r.st, slices |-> rest, error |-> r.error ]
           ELSE ProcessSlices(r.st, rest, now)

\* _handle_packet: split the batch onto _packet_slices, then dispatch; split
\* records what _separate_batch did: the length of the list before the call,
\* the list after it and the error it raised
HandlePacket(st, packet_slices, packet, now) ==
  LET sep == SeparateBatch(packet, packet_slices)
      split == [ from |-> Len(packet_slices), slices |-> sep.slices,
                 error |-> sep.error ]
  IN  IF sep.error # "none"
      THEN [ st |-> st, slices |-> sep.slices, error |-> sep.error,
             split |-> split ]
      ELSE LET r == ProcessSlices(st, sep.slices, now)
           IN  [ st |-> r.st, slices |-> r.slices, error |-> r.error,
                 split |-> split ]

\* ---------------------------------------------------------- client state
VARIABLES
  sequence_number,            \* _sequence_number: channel -> byte
  packet_slices,              \* _packet_slices: list of <<id, bytes>>
  readings,                   \* _readings: report id -> value
  dcd_saved_at,               \* _dcd_saved_at
  me_calibration_started_at,  \* _me_calibration_started_at
  magnetometer_accuracy,      \* _magnetometer_accuracy
  id_read,                    \* _id_read
  data_buffer,                \* the bytes of _data_buffer last sent or read
  bus_write,                  \* the bytes of the last successful bus write
  now,                        \* time.ticks_ms()
  pc,                         \* where the running public operation stands
  attempt,                    \* the loop variable of initialize()
  read_i,                     \* the loop variable _i of soft_reset()
  acc_id,                     \* report id of the accessor being run
  calls,                      \* public operations called after __init__
  result,                     \* how the last public operation ended
  ret,                        \* the value the last accessor returned
  last_call,                  \* the method the last step ran
  raised,                     \* the exception the last step raised, or "none"
  split,                      \* what the last _separate_batch call did
  seq_hist,                   \* history: sends and receives per channel
  init_hist,                  \* history of the running initialize() call
  two_ended_sequence_numbers, \* _two_ended_sequence_numbers: report id -> byte
  op,                         \* the public operation that is running or ran last
  start_time,                 \* the local start_time of the running operation
  feature_id,                 \* the argument of the running enable_feature call
  enabling,                   \* the feature_id of its innermost running frame
  processed_count,            \* the local of _process_available_packets
  wait_start,                 \* the local start_time of the running
                              \* _wait_for_packet call, -1 when none runs
  op_hist                     \* history of features, shakes and commands

vars == << sequence_number, packet_slices, readings, dcd_saved_at,
           me_calibration_started_at, magnetometer_accuracy, id_read,
           data_buffer, bus_write, now, pc, attempt, read_i, acc_id, calls,
           result, ret, last_call, raised, split, seq_hist, init_hist,
           two_ended_sequence_numbers, op, start_time, feature_id, enabling,
           processed_count, wait_start, op_hist >>

storeVars == << readings, dcd_saved_at, me_calibration_started_at,
                magnetometer_accuracy >>
ctlVars == << pc, attempt, read_i, acc_id, calls, result, ret >>
opVars == << two_ended_sequence_numbers, op, start_time, feature_id, enabling,
             processed_count, wait_start, op_hist >>

\* the part of the client the dispatcher works on
Store ==
  [ readings                  |-> readings,
    dcd_saved_at              |-> dcd_saved_at,
    me_calibration_started_at |-> me_calibration_started_at,
    magnetometer_accuracy     |-> magnetometer_accuracy ]

SetStore(st) ==
  /\ readings' = st.readings
  /\ dcd_saved_at' = st.dcd_saved_at
  /\ me_calibration_started_at' = st.me_calibration_started_at
  /\ magnetometer_accuracy' = st.magnetometer_accuracy

EmptyMap == [ x \in {} |-> << >> ]
NoSplit == [ from |-> 0, slices |-> << >>, error |-> "none" ]
NoSeqHist ==
  [ sent  |-> [ c \in Channels |-> 0 ],   \* successful sends on c
    since |-> [ c \in Channels |-> 0 ],   \* of these, after the last receive
    rx    |-> [ c \in Channels |-> 0 ],   \* sequence last received on c
    reads |-> 0 ]                         \* packets received
NoInitHist ==
  [ hard_resets |-> 0,      \* hard_reset() calls
    soft_resets |-> 0,      \* soft_reset() calls that returned
    id_requests |-> 0,      \* product-ID requests written to the bus
    responded   |-> FALSE,  \* a product-ID response was read
    bus_failed  |-> FALSE ] \* a bus transaction raised OSError

NoOpHist ==
  [ acked         |-> {},      \* feature ids whose acknowledgement was processed
    set_features  |-> << >>,   \* ids of the set-feature commands the running
                               \* enable_feature call handed to _send_packet
    dep_absent    |-> FALSE,   \* its dependency was not in _readings at the call
    shake_pending |-> FALSE,   \* a shake report with nonzero masked bitfield
                               \* was processed since the last read of shake
    shake_seen    |-> FALSE,   \* a shake report was processed since that read
    read_kind     |-> "none",  \* the last read of shake: "first" after a
                               \* nonzero shake report, "second" right after a
                               \* first with no shake report between, "other"
    cmd_sends     |-> 0,       \* command requests written to the bus
    dcd_responded |-> FALSE,   \* a zero-status SAVE_DCD response was processed
                               \* since the last save request was sent
    me_requested  |-> FALSE,   \* an ME_CALIBRATE request was written to the bus
    me_responded  |-> FALSE ]  \* a zero-status ME_CALIBRATE response was
                               \* processed since the last ME request was sent

\* BNO085.__init__ up to the call of initialize()
ClientInit ==
  /\ sequence_number = [ c \in Channels |-> 0 ]
  /\ packet_slices = << >>
  /\ readings = EmptyMap
  /\ dcd_saved_at = -1
  /\ me_calibration_started_at = -1
  /\ magnetometer_accuracy = 0
  /\ id_read = FALSE
  /\ data_buffer = << >>
  /\ bus_write = << >>
  /\ now = 0
  /\ attempt = 0
  /\ read_i = 0
  /\ acc_id = 0
  /\ calls = 0
  /\ result = "none"
  /\ ret = << >>
  /\ last_call = "__init__"
  /\ raised = "none"
  /\ split = NoSplit
  /\ seq_hist = NoSeqHist
  /\ init_hist = NoInitHist
  /\ two_ended_sequence_numbers = [ x \in {} |-> 0 ]
  /\ op = "__init__"
  /\ start_time = 0
  /\ feature_id = 0
  /\ enabling = 0
  /\ processed_count = 0
  /\ wait_start = -1
  /\ op_hist = NoOpHist

\* ------------------------------------------------------- channel sequencer
\* _sequence_number after a successful _send_packet on channel
ApplySendShared(seqs, channel) == [ c \in Channels |-> NextSequence(seqs[c]) ]
ApplySend(seqs, channel) == [ seqs EXCEPT ![channel] = NextSequence(@) ]

\* _send_packet(channel, data); ok is whether the bus write succeeds
SendPacketEager(channel, data, ok) ==
  LET buf == SendBuffer(channel, HeaderSeq(sequence_number, channel), data)
  IN  /\ data_buffer' = buf
      /\ bus_write' = IF ok THEN buf ELSE bus_write
      /\ sequence_number' = ApplySend(sequence_number, channel)
SendPacket(channel, data, ok) ==
  LET buf == SendBuffer(channel, HeaderSeq(sequence_number, channel), data)
  IN  /\ data_buffer' = buf
      /\ bus_write' = IF ok THEN buf ELSE bus_write
      /\ sequence_number' = IF ok THEN ApplySend(sequence_number, channel)
                            ELSE sequence_number

\* _update_sequence_number
UpdateSequenceNumberCounting(seqs, new_packet) ==
  [ seqs EXCEPT ![new_packet.header.channel_number] = (@ + 1) % SeqModulus ]
UpdateSequenceNumber(seqs, new_packet) ==
  [ seqs EXCEPT ![new_packet.header.channel_number] =
                  new_packet.header.sequence_number ]

\* _read_packet when the device presents the wire packet `wire`: the header
\* read returns its first 4 bytes and _read, per the comment on its bus read
\* ("the sensor resets the pointer for the new transaction"), returns the
\* same packet from its header on.  fail names the bus read that raises
\* OSError: "header", "body" or "none"; stored tells whether the sequence of
\* the header was written to _sequence_number.
ReadPacketResult(seqs, buf, wire, fail) ==
  LET header == HeaderFromBuffer(wire)
      seqs1  == [ seqs EXCEPT ![header.channel_number] = header.sequence_number ]
      hbuf   == SubSeq(wire, 1, BNO_HEADER_LEN)
  IN  IF fail = "header"
      THEN [ seqs |-> seqs, buffer |-> buf, stored |-> FALSE,
             error |-> "OSError" ]
      ELSE IF header.channel_number \notin Channels
      THEN [ seqs |-> seqs, buffer |-> hbuf, stored |-> FALSE,
             error |-> "IndexError" ]
      ELSE IF header.packet_byte_count = 0
      THEN [ seqs |-> seqs1, buffer |-> hbuf, stored |-> TRUE,
             error |-> "PacketError" ]
      ELSE IF fail = "body"
      THEN [ seqs |-> seqs1, buffer |-> hbuf, stored |-> TRUE,
             error |-> "OSError" ]
      ELSE [ seqs   |-> UpdateSequenceNumber(seqs1, Packet(wire)),
             buffer |-> wire, stored |-> TRUE, error |-> "none" ]

\* _data_ready applied to the header the device returns
DataReady(hdr) ==
  LET header == HeaderFromBuffer(hdr)
  IN  IF header.packet_byte_count = 32767 THEN FALSE
      ELSE header.data_length > 0

\* ------------------------------------------------------------- the device
\* a packet as the device puts it on the wire
WirePacket(channel, seq, data) ==
  PackU16LE(Len(data) + 4) \o << channel, seq >> \o data

\* the header of "no data available"
ZeroHeader(channel, seq) == << 0, 0, channel, seq >>

StepCounterReport(v) ==
  << BNO_REPORT_STEP_COUNTER >> \o Zeros(7) \o PackU16LE(v) \o Zeros(2)
ShakeReport(bits) ==
  << BNO_REPORT_SHAKE_DETECTOR >> \o Zeros(3) \o PackU16LE(bits)
FeatureResponse(f) == << GET_FEATURE_RESPONSE, f >> \o Zeros(15)
\* part number at offset 4 (u32), the other fields zero
ProductIdResponse(part) ==
  << SHTP_REPORT_PRODUCT_ID_RESPONSE >> \o Zeros(3) \o PackU16LE(part)
  \o Zeros(10)
CommandResponseReport(command, status) ==
  << COMMAND_RESPONSE, 0, command, 0, 0, status >> \o Zeros(10)

\* ------------------------------------------- specification: the sequencer
\* _send_packet and _read_packet under any interleaving, on any channel.
MaxSeqSends == 3
MaxSeqReads == 1
MaxWrapSends == 257

SeqSamples == { 7, 255 }
ErrorHeader == << 255, 255, 7, 255 >>

SeqWires ==
  { ZeroHeader(c, s) : c \in Channels, s \in SeqSamples }
  \cup { WirePacket(c, s, StepCounterReport(1)) : c \in Channels, s \in SeqSamples }
  \cup { ErrorHeader }

Total(f) == f[0] + f[1] + f[2] + f[3] + f[4] + f[5]

\* the history after a successful send on channel c
HistSend(h, c) ==
  [ h EXCEPT !.sent[c] = @ + 1, !.since[c] = @ + 1 ]

\* the history after _read_packet stored the sequence of a header
HistRead(h, r, wire) ==
  IF ~r.stored
  THEN [ h EXCEPT !.reads = @ + 1 ]
  ELSE [ h EXCEPT !.reads = @ + 1,
                  !.rx[wire[3]] = wire[4],
                  !.since[wire[3]] = 0 ]

SeqFrame ==
  UNCHANGED << packet_slices, storeVars, id_read, now, ctlVars, split,
               init_hist, opVars >>

SeqSend(channel, ok) ==
  /\ SendPacket(channel, << BNO08X_CMD_RESET >>, ok)
  /\ last_call' = "_send_packet"
  /\ raised' = IF ok THEN "none" ELSE "OSError"
  /\ seq_hist' = IF ok THEN HistSend(seq_hist, channel) ELSE seq_hist
  /\ SeqFrame

SeqRead(wire, fail) ==
  LET r == ReadPacketResult(sequence_number, data_buffer, wire, fail)
  IN  /\ sequence_number' = r.seqs
      /\ data_buffer' = r.buffer
      /\ last_call' = "_read_packet"
      /\ raised' = r.error
      /\ seq_hist' = HistRead(seq_hist, r, wire)
      /\ UNCHANGED bus_write
      /\ SeqFrame

SeqSendStep ==
  /\ Total(seq_hist.sent) < MaxSeqSends
  /\ \E channel \in Channels, ok \in BOOLEAN : SeqSend(channel, ok)

SeqReadStep ==
  /\ seq_hist.reads < MaxSeqReads
  /\ \E wire \in SeqWires, fail \in { "none", "header", "body" } :
       SeqRead(wire, fail)

InitSeq == ClientInit /\ pc = "sequencer"
NextSeq == SeqSendStep \/ SeqReadStep
SpecSeq == InitSeq /\ [][NextSeq]_vars

\* ------------------------------------ specification: wrap of one counter
\* At most one packet is received, then one channel is sent on repeatedly.
WrapSendStep ==
  /\ \E channel \in Channels, ok \in BOOLEAN :
       /\ seq_hist.sent[channel] < MaxWrapSends
       /\ \A d \in Channels \ { channel } : seq_hist.sent[d] = 0
       /\ SeqSend(channel, ok)

WrapReadStep ==
  /\ seq_hist.reads = 0
  /\ Total(seq_hist.sent) = 0
  /\ \E wire \in SeqWires : SeqRead(wire, "none")

InitWrap == ClientInit /\ pc = "wrap"
NextWrap == WrapSendStep \/ WrapReadStep
SpecWrap == InitWrap /\ [][NextWrap]_vars

\* ------------------------------------- specification: the packet handler
\* _handle_packet applied to one device payload after the other.
MaxBatchReports == 2
MaxCut == 2
MaxStale == 1

StepValues == { 1, 2 }

\* whole reports with ids of the length tables
BatchReports ==
  { StepCounterReport(v) : v \in StepValues }
  \cup { ShakeReport(1), CommandResponseReport(SAVE_DCD, 1) }

\* a report whose id (0x2A) is in neither length table
UnknownReport == << 42, 0, 0, 0 >>

ReportSeqs ==
  UNION { [ 1 .. n -> BatchReports ] : n \in 0 .. MaxBatchReports }

\* payloads made of whole reports, back to back
WholePayloads == { Flatten(rs) : rs \in ReportSeqs }

\* payloads whose last report lacks its last k bytes
TruncatedPayloads ==
  { SubSeq(p, 1, Len(p) - k) : p \in WholePayloads \ { << >> }, k \in 1 .. MaxCut }

BatchPayloads ==
  WholePayloads \cup TruncatedPayloads
  \cup { r \o UnknownReport : r \in BatchReports \cup { << >> } }

\* _handle_packet(packet) as a step: the store, the pending slices, what the
\* split did, and the exception that leaves _handle_packet
HandlePacketStep(packet) ==
  LET r == HandlePacket(Store, packet_slices, packet, now)
  IN  /\ SetStore(r.st)
      /\ packet_slices' = r.slices
      /\ split' = r.split
      /\ raised' = r.error

BatchHandle(payload) ==
  LET wire == WirePacket(BNO_CHANNEL_INPUT_SENSOR_REPORTS, 0, payload)
  IN  /\ Len(packet_slices) <= MaxStale
      /\ data_buffer' = wire
      /\ HandlePacketStep(Packet(wire))
      /\ last_call' = "_handle_packet"
      /\ UNCHANGED << sequence_number, id_read, bus_write, now, ctlVars,
                      seq_hist, init_hist, opVars >>

InitBatch == ClientInit /\ pc = "handler"
NextBatch == \E payload \in BatchPayloads : BatchHandle(payload)
SpecBatch == InitBatch /\ [][NextBatch]_vars

\* ----------------------------------- specification: the public operations
\* __init__ runs initialize(); afterwards the caller runs accessors and
\* initialize() again.  Each step is one bus transaction of the running
\* operation together with the computation that follows it up to the next
\* transaction.  A wait whose clock test may fail at a poll has a step that
\* raises the timeout.
MaxCalls == 1

MainSeqs == { 7 }
TruncatedStep == SubSeq(StepCounterReport(2), 1, 11)

\* what the device may present at a bus read
MainWires ==
  { ErrorHeader }
  \cup UNION { { ZeroHeader(BNO_CHANNEL_CONTROL, s),
                 WirePacket(BNO_CHANNEL_CONTROL, s, ProductIdResponse(1)),
                 WirePacket(BNO_CHANNEL_CONTROL, s, ProductIdResponse(0)),
                 WirePacket(BNO_CHANNEL_EXE, s, << 1 >>),
                 WirePacket(BNO_CHANNEL_INPUT_SENSOR_REPORTS, s,
                            StepCounterReport(1)),
                 WirePacket(BNO_CHANNEL_INPUT_SENSOR_REPORTS, s,
                            StepCounterReport(1) \o TruncatedStep) }
               : s \in MainSeqs }

AccessorIds == { BNO_REPORT_STEP_COUNTER }

\* _parse_sensor_id on _data_buffer: None unless byte 4 is the product-ID
\* response id, else the part number (u32 at offset 4 of the data)
ParseSensorId(buf) ==
  IF buf[5] # SHTP_REPORT_PRODUCT_ID_RESPONSE THEN 0
  ELSE U16LE(buf, 8) + 65536 * U16LE(buf, 10)

histVars == << seq_hist, opVars >>
\* histVars without the start times of the two waits
waitFrame == << seq_hist, two_ended_sequence_numbers, op, feature_id,
               enabling, processed_count, op_hist >>

\* an exception leaves the running public operation
Propagate(err) ==
  /\ pc' = "idle"
  /\ result' = err
  /\ raised' = err
  /\ UNCHANGED << attempt, read_i, acc_id, calls, ret >>

\* the except branch of initialize(): sleep, next iteration of the for loop
Retry(err) ==
  /\ pc' = "initialize"
  /\ attempt' = attempt + 1
  /\ raised' = err
  /\ UNCHANGED << read_i, acc_id, calls, result, ret >>

Goto(loc) ==
  /\ pc' = loc
  /\ raised' = "none"
  /\ UNCHANGED << attempt, read_i, acc_id, calls, result, ret >>

BusFailed(ok) == [ init_hist EXCEPT !.bus_failed = @ \/ ~ok ]

\* initialize(): the head of `for _ in range(3)` and hard_reset(), or the
\* else branch of the loop
InitializeLoop ==
  /\ pc = "initialize"
  /\ last_call' = "initialize"
  /\ IF attempt < InitAttempts
     THEN /\ Goto("soft_reset_send1")
          /\ init_hist' = [ init_hist EXCEPT !.hard_resets = @ + 1 ]
     ELSE /\ Propagate("InitializationFailed")
          /\ UNCHANGED init_hist
  /\ UNCHANGED << sequence_number, packet_slices, storeVars, id_read,
                  data_buffer, bus_write, now, split, histVars >>

\* soft_reset(): the two sends of the reset command on the executable
\* channel; they are outside the try of initialize()
SoftResetSend(ok) ==
  /\ pc \in { "soft_reset_send1", "soft_reset_send2" }
  /\ SendPacket(BNO_CHANNEL_EXE, << BNO08X_CMD_RESET >>, ok)
  /\ last_call' = "_send_packet"
  /\ init_hist' = BusFailed(ok)
  /\ IF ~ok THEN Propagate("OSError")
     ELSE IF pc = "soft_reset_send1" THEN Goto("soft_reset_send2")
     ELSE /\ pc' = "soft_reset_read"
          /\ read_i' = 0
          /\ raised' = "none"
          /\ UNCHANGED << attempt, acc_id, calls, result, ret >>
  /\ UNCHANGED << packet_slices, storeVars, id_read, now, split, histVars >>

\* soft_reset(): `for _i in range(3)`, one _read_packet per iteration; only
\* PacketError is caught
SoftResetRead(wire, fail) ==
  LET r == ReadPacketResult(sequence_number, data_buffer, wire, fail)
  IN  /\ pc = "soft_reset_read"
      /\ sequence_number' = r.seqs
      /\ data_buffer' = r.buffer
      /\ last_call' = "_read_packet"
      /\ IF r.error \in { "OSError", "IndexError" }
         THEN /\ Propagate(r.error)
              /\ init_hist' = BusFailed(r.error # "OSError")
         ELSE /\ raised' = r.error
              /\ read_i' = read_i + 1
              /\ pc' = IF read_i + 1 < SoftResetReads THEN "soft_reset_read"
                       ELSE "check_id"
              /\ init_hist' = IF read_i + 1 < SoftResetReads THEN init_hist
                              ELSE [ init_hist EXCEPT !.soft_resets = @ + 1 ]
              /\ UNCHANGED << attempt, acc_id, calls, result, ret >>
      /\ UNCHANGED << packet_slices, storeVars, id_read, bus_write, now,
                      split, histVars >>

\* _check_id up to its wait: return at once when the id was read before,
\* else send the product-ID request
CheckId(ok) ==
  /\ pc = "check_id"
  /\ IF id_read
     THEN /\ pc' = "idle"
          /\ result' = "Ready"
          /\ raised' = "none"
          /\ last_call' = "_check_id"
          /\ UNCHANGED << attempt, read_i, acc_id, calls, ret,
                          sequence_number, data_buffer, bus_write, init_hist >>
     ELSE /\ SendPacket(BNO_CHANNEL_CONTROL,
                        << SHTP_REPORT_PRODUCT_ID_REQUEST, 0 >>, ok)
          /\ last_call' = "_send_packet"
          /\ IF ok
             THEN /\ Goto("wait_data_ready")
                  /\ init_hist' = [ init_hist EXCEPT !.id_requests = @ + 1 ]
             ELSE /\ Retry("OSError")
                  /\ init_hist' = BusFailed(ok)
  /\ start_time' = IF ~id_read /\ ok THEN now ELSE start_time
  /\ wait_start' = -1
  /\ UNCHANGED << packet_slices, storeVars, id_read, now, split, waitFrame >>

\* _wait_for_packet inside _wait_for_packet_type: one poll of _data_ready;
\* a _wait_for_packet call that begins reads the clock first
WaitDataReady(wire, ok) ==
  /\ pc = "wait_data_ready"
  /\ last_call' = "_data_ready"
  /\ init_hist' = BusFailed(ok)
  /\ IF ~ok
     THEN Retry("OSError") /\ UNCHANGED data_buffer
     ELSE /\ data_buffer' = SubSeq(wire, 1, BNO_HEADER_LEN)
          /\ Goto(IF DataReady(wire) THEN "wait_read_packet"
                  ELSE "wait_data_ready")
  /\ wait_start' = IF ~ok THEN -1
                   ELSE IF wait_start = -1 THEN now ELSE wait_start
  /\ UNCHANGED << sequence_number, packet_slices, storeVars, id_read,
                  bus_write, now, split, start_time, waitFrame >>

\* the clock test of _wait_for_packet or of _wait_for_packet_type fails:
\* RuntimeError("Timed out ..."), caught by initialize()
WaitTimeout ==
  /\ pc = "wait_data_ready"
  /\ last_call' = "_wait_for_packet_type"
  /\ Retry("Timeout")
  /\ wait_start' = -1
  /\ UNCHANGED << sequence_number, packet_slices, storeVars, id_read,
                  data_buffer, bus_write, now, split, start_time, waitFrame,
                  init_hist >>

\* _wait_for_packet reads the packet; _wait_for_packet_type returns it to
\* _check_id when it is a product-ID response on the control channel, hands
\* it to _handle_packet unless it is on the command or executable channel,
\* and goes on waiting.  Every exception reaches the except of initialize().
WaitReadPacket(wire, fail) ==
  LET r          == ReadPacketResult(sequence_number, data_buffer, wire, fail)
      new_packet == Packet(wire)
      on_control == new_packet.header.channel_number = BNO_CHANNEL_CONTROL
      matches    == on_control
                    /\ new_packet.data[1] = SHTP_REPORT_PRODUCT_ID_RESPONSE
      dropped    == new_packet.header.channel_number
                      \in { BNO_CHANNEL_EXE, BNO_CHANNEL_SHTP_COMMAND }
  IN  /\ pc = "wait_read_packet"
      /\ sequence_number' = r.seqs
      /\ data_buffer' = r.buffer
      /\ init_hist' =
           [ init_hist EXCEPT
               !.bus_failed = @ \/ r.error = "OSError",
               !.responded  = @ \/ ( /\ r.error = "none"
                                     /\ Len(new_packet.data) > 0
                                     /\ matches ) ]
      /\ IF r.error # "none"
         THEN /\ Retry(r.error)
              /\ last_call' = "_read_packet"
              /\ UNCHANGED << packet_slices, storeVars, id_read, split >>
         ELSE IF on_control /\ Len(new_packet.data) = 0
         THEN /\ Retry("IndexError")
              /\ last_call' = "_wait_for_packet_type"
              /\ UNCHANGED << packet_slices, storeVars, id_read, split >>
         ELSE IF matches
         THEN /\ last_call' = "_check_id"
              /\ UNCHANGED << packet_slices, storeVars, split >>
              /\ IF ParseSensorId(wire) # 0
                 THEN /\ id_read' = TRUE
                      /\ pc' = "idle"
                      /\ result' = "Ready"
                      /\ raised' = "none"
                      /\ UNCHANGED << attempt, read_i, acc_id, calls, ret >>
                 ELSE /\ Goto("wait_data_ready")
                      /\ UNCHANGED id_read
         ELSE IF dropped
         THEN /\ Goto("wait_data_ready")
              /\ last_call' = "_wait_for_packet_type"
              /\ UNCHANGED << packet_slices, storeVars, id_read, split >>
         ELSE /\ HandlePacketStep(new_packet)
              /\ last_call' = "_handle_packet"
              /\ UNCHANGED id_read
              /\ LET h == HandlePacket(Store, packet_slices, new_packet, now)
                 IN  IF h.error # "none"
                     THEN /\ pc' = "initialize"
                          /\ attempt' = attempt + 1
                     ELSE /\ pc' = "wait_data_ready"
                          /\ UNCHANGED attempt
              /\ UNCHANGED << read_i, acc_id, calls, result, ret >>
      /\ start_time' = IF r.error = "none" /\ Len(new_packet.data) > 0
                          /\ matches /\ ParseSensorId(wire) = 0
                       THEN now ELSE start_time
      /\ wait_start' = -1
      /\ UNCHANGED << bus_write, now, waitFrame >>

\* the caller runs initialize() again
CallInitialize ==
  /\ pc = "idle"
  /\ id_read
  /\ calls < MaxCalls
  /\ calls' = calls + 1
  /\ pc' = "initialize"
  /\ attempt' = 0
  /\ result' = "none"
  /\ raised' = "none"
  /\ last_call' = "initialize"
  /\ init_hist' = NoInitHist
  /\ UNCHANGED << read_i, acc_id, ret, sequence_number, packet_slices,
                  storeVars, id_read, data_buffer, bus_write, now, split,
                  histVars >>

\* the caller reads an accessor (steps, shake)
CallAccessor(report_id) ==
  /\ pc = "idle"
  /\ id_read
  /\ calls < MaxCalls
  /\ calls' = calls + 1
  /\ pc' = "poll_data_ready"
  /\ acc_id' = report_id
  /\ result' = "none"
  /\ raised' = "none"
  /\ last_call' = "accessor"
  /\ UNCHANGED << attempt, read_i, ret, sequence_number, packet_slices,
                  storeVars, id_read, data_buffer, bus_write, now, split,
                  histVars, init_hist >>

\* _process_available_packets: `while self._data_ready`; when it is false
\* the accessor looks its report id up in _readings (shake clears on read)
PollDataReady(wire, ok) ==
  /\ pc = "poll_data_ready"
  /\ last_call' = "_data_ready"
  /\ IF ~ok
     THEN Propagate("OSError") /\ UNCHANGED << data_buffer, readings >>
     ELSE /\ data_buffer' = SubSeq(wire, 1, BNO_HEADER_LEN)
          /\ IF DataReady(wire)
             THEN Goto("poll_read_packet") /\ UNCHANGED readings
             ELSE IF acc_id \notin DOMAIN readings
             THEN Propagate("ReportNotEnabled") /\ UNCHANGED readings
             ELSE /\ pc' = "idle"
                  /\ result' = "returned"
                  /\ ret' = readings[acc_id]
                  /\ raised' = "none"
                  /\ readings' =
                       IF acc_id = BNO_REPORT_SHAKE_DETECTOR
                          /\ Truthy(readings[acc_id])
                       THEN Put(readings, acc_id, << "bool", 0 >>)
                       ELSE readings
                  /\ UNCHANGED << attempt, read_i, acc_id, calls >>
  /\ UNCHANGED << sequence_number, packet_slices, dcd_saved_at,
                  me_calibration_started_at, magnetometer_accuracy, id_read,
                  bus_write, now, split, histVars, init_hist >>

\* _process_available_packets: _read_packet (PacketError: continue) and
\* _handle_packet
PollReadPacket(wire, fail) ==
  LET r == ReadPacketResult(sequence_number, data_buffer, wire, fail)
  IN  /\ pc = "poll_read_packet"
      /\ sequence_number' = r.seqs
      /\ data_buffer' = r.buffer
      /\ IF r.error = "PacketError"
         THEN /\ pc' = "poll_data_ready"
              /\ raised' = r.error
              /\ last_call' = "_read_packet"
              /\ UNCHANGED << attempt, read_i, acc_id, calls, result, ret,
                              packet_slices, storeVars, split >>
         ELSE IF r.error # "none"
         THEN /\ Propagate(r.error)
              /\ last_call' = "_read_packet"
              /\ UNCHANGED << packet_slices, storeVars, split >>
         ELSE /\ HandlePacketStep(Packet(wire))
              /\ last_call' = "_handle_packet"
              /\ LET h == HandlePacket(Store, packet_slices, Packet(wire), now)
                 IN  IF h.error # "none"
                     THEN pc' = "idle" /\ result' = h.error
                     ELSE pc' = "poll_data_ready" /\ UNCHANGED result
              /\ UNCHANGED << attempt, read_i, acc_id, calls, ret >>
      /\ UNCHANGED << id_read, bus_write, now, histVars, init_hist >>

Init == ClientInit /\ pc = "initialize"

Next ==
  \/ InitializeLoop
  \/ \E ok \in BOOLEAN : SoftResetSend(ok)
  \/ \E wire \in MainWires, fail \in { "none", "header", "body" } :
       SoftResetRead(wire, fail)
  \/ \E ok \in BOOLEAN : CheckId(ok)
  \/ \E wire \in MainWires, ok \in BOOLEAN : WaitDataReady(wire, ok)
  \/ WaitTimeout
  \/ \E wire \in MainWires, fail \in { "none", "header", "body" } :
       WaitReadPacket(wire, fail)
  \/ CallInitialize
  \/ \E report_id \in AccessorIds : CallAccessor(report_id)
  \/ \E wire \in MainWires, ok \in BOOLEAN : PollDataReady(wire, ok)
  \/ \E wire \in MainWires, fail \in { "none", "header", "body" } :
       PollReadPacket(wire, fail)

Spec == Init /\ [][Next]_vars

\* --------------------------------------- operations after initialization
\* Features, accessors and calibration commands.  Every operation that polls
\* runs _process_available_packets in a loop; a step is one bus transaction
\* with the computation that follows it up to the next transaction.
ME_CAL_CONFIG == 0
ME_GET_CAL == 1

\* struct.pack("<I", v)
PackU32LE(v) ==
  << v % 256, (v \div 256) % 256, (v \div 65536) % 256, (v \div 16777216) % 256 >>

\* _get_feature_enable_report: 17 bytes
GetFeatureEnableReportPacked(feature, report_interval, sensor_specific_config) ==
  << SET_FEATURE_COMMAND, feature >> \o Zeros(3) \o PackU32LE(report_interval)
  \o PackU32LE(sensor_specific_config)
GetFeatureEnableReport(feature, report_interval, sensor_specific_config) ==
  << SET_FEATURE_COMMAND, feature >> \o Zeros(3) \o PackU32LE(report_interval)
  \o Zeros(4) \o PackU32LE(sensor_specific_config)

\* the report enable_feature builds for its feature_id
SetFeatureReport(feature) ==
  GetFeatureEnableReport(feature, DEFAULT_REPORT_INTERVAL,
                         IF feature = BNO_REPORT_ACTIVITY_CLASSIFIER
                         THEN ENABLED_ACTIVITIES ELSE 0)

\* _insert_command_request_report: 12 bytes
InsertCommandRequestReport(command, next_sequence_number, command_params) ==
  << COMMAND_REQUEST, next_sequence_number, command >> \o command_params
  \o Zeros(9 - Len(command_params))

\* the subcommand parameters of begin_calibration and of calibration_status
MeParams(kind) ==
  IF kind = "begin_calibration"
  THEN << 1, 1, 1, ME_CAL_CONFIG, 0, 0, 0, 0, 0 >>
  ELSE << 0, 0, 0, ME_GET_CAL, 0, 0, 0, 0, 0 >>

\* _get_report_seq_id
GetReportSeqId(seq_map, report_id) ==
  IF report_id \in DOMAIN seq_map THEN seq_map[report_id] ELSE 0

\* _increment_report_seq
IncrementReportSeqStuck(seq_map, report_id) ==
  Put(seq_map, report_id, GetReportSeqId(seq_map, report_id))
IncrementReportSeq(seq_map, report_id) ==
  Put(seq_map, report_id, (GetReportSeqId(seq_map, report_id) + 1) % SeqModulus)

\* enable_feature: `feature_dependency and feature_dependency not in _readings`
FeatureDependencyNever(feature, stored) == FALSE
FeatureDependencyMissing(feature, stored) ==
  /\ feature \in DOMAIN RAW_REPORTS
  /\ RAW_REPORTS[feature] # 0
  /\ RAW_REPORTS[feature] \notin DOMAIN stored

\* enable_feature: `if feature_id in self._readings: return`
FeatureEnabledAssumed(feature, stored) == TRUE
FeatureEnabled(feature, stored) == feature \in DOMAIN stored

\* time.ticks_diff(ticks1, ticks2): the signed difference on the ring of
\* TicksPeriod clock values
TicksDiff(ticks1, ticks2) ==
  ( ( ticks1 - ticks2 + TicksPeriod \div 2 ) % TicksPeriod )
    - TicksPeriod \div 2

\* _elapsed(start_time), in seconds
Elapsed(start, t) == TicksDiff(t, start)

\* save_calibration_data: the test that returns
DcdSaved(saved_at, start) == saved_at # -1 /\ TicksDiff(saved_at, start) > 0

\* _send_me_command: the two tests that break
MeStarted(started_at, start, t) ==
  /\ started_at # -1
  /\ Elapsed(started_at, t) > 0
  /\ TicksDiff(started_at, start) > 0

\* never written by the operations after initialization
initVars == << attempt, read_i, id_read, seq_hist, init_hist, wait_start >>

\* time.ticks_ms() advances by one
Tick(limit) ==
  /\ now < limit
  /\ now' = now + 1
  /\ UNCHANGED << sequence_number, packet_slices, storeVars, id_read,
                  data_buffer, bus_write, ctlVars, last_call, raised, split,
                  seq_hist, init_hist, opVars >>

\* the caller starts a public operation
OpBegin(kind, max_calls) ==
  /\ pc = "idle"
  /\ calls < max_calls
  /\ calls' = calls + 1
  /\ op' = kind
  /\ processed_count' = 0

\* how the operation goes on: its place, its result, the exception raised
OpGoto(loc, res, err) ==
  /\ pc' = loc
  /\ result' = res
  /\ raised' = err

\* what the history records when _handle_packet processed a packet; the
\* packets of the specifications below hold one report each
HistHandled(h, packet, err) ==
  IF Len(packet.data) = 0 \/ err # "none" THEN h
  ELSE LET report_id == packet.data[1]
       IN  IF report_id = GET_FEATURE_RESPONSE
           THEN [ h EXCEPT !.acked = @ \cup { packet.data[2] } ]
           ELSE IF report_id = BNO_REPORT_SHAKE_DETECTOR
           THEN [ h EXCEPT !.shake_seen = TRUE,
                           !.shake_pending =
                             @ \/ ParseShakeReport(packet.data)[2] = 1 ]
           ELSE IF report_id = COMMAND_RESPONSE /\ packet.data[6] = 0
                   /\ packet.data[3] = SAVE_DCD
           THEN [ h EXCEPT !.dcd_responded = TRUE ]
           ELSE IF report_id = COMMAND_RESPONSE /\ packet.data[6] = 0
                   /\ packet.data[3] = ME_CALIBRATE
           THEN [ h EXCEPT !.me_responded = TRUE ]
           ELSE h

\* what the history records when a read of shake returns
HistShakeRead(h) ==
  [ h EXCEPT !.read_kind = IF h.shake_pending THEN "first"
                           ELSE IF h.read_kind = "first" /\ ~h.shake_seen
                           THEN "second" ELSE "other",
             !.shake_pending = FALSE,
             !.shake_seen = FALSE ]

\* _process_available_packets has returned: what the running operation does
\* next.  An accessor looks its id up (shake clears on read); enable_feature,
\* save_calibration_data and _send_me_command test their condition and then
\* the clock of their while loop.
Drained ==
  LET goes(loc, res, val, rd, en) ==
        [ pc |-> loc, result |-> res, ret |-> val, readings |-> rd,
          enabling |-> en ]
      again == goes("op_data_ready", "none", ret, readings, enabling)
  IN  IF op = "accessor"
      THEN IF acc_id \notin DOMAIN readings
           THEN goes("idle", "ReportNotEnabled", ret, readings, enabling)
           ELSE goes("idle", "returned", readings[acc_id],
                     IF acc_id = BNO_REPORT_SHAKE_DETECTOR
                        /\ Truthy(readings[acc_id])
                     THEN Put(readings, acc_id, << "bool", 0 >>)
                     ELSE readings,
                     enabling)
      ELSE IF op = "enable_feature"
      THEN IF FeatureEnabled(enabling, readings)
           THEN IF enabling # feature_id
                THEN goes("enable_send", "none", ret, readings, feature_id)
                ELSE goes("idle", "returned", ret, readings, enabling)
           ELSE IF Elapsed(start_time, now) < FEATURE_ENABLE_TIMEOUT
           THEN again
           ELSE goes("idle", "FeatureEnableTimeout", << "int", enabling >>,
                     readings, enabling)
      ELSE IF op = "save_calibration_data"
      THEN IF DcdSaved(dcd_saved_at, start_time)
           THEN goes("idle", "returned", ret, readings, enabling)
           ELSE IF Elapsed(start_time, now) < DEFAULT_TIMEOUT
           THEN again
           ELSE goes("idle", "CalibrationTimeout", ret, readings, enabling)
      ELSE IF MeStarted(me_calibration_started_at, start_time, now)
              \/ ~(Elapsed(start_time, now) < DEFAULT_TIMEOUT)
      THEN goes("idle", "returned",
                IF op = "calibration_status"
                THEN << "int", magnetometer_accuracy >> ELSE ret,
                readings, enabling)
      ELSE again

\* `while self._data_ready` of _process_available_packets: one poll; with
\* max_packets (enable_feature) the loop also ends after more than
\* max_packets packets
OpDataReady(wire, ok) ==
  LET capped == op = "enable_feature" /\ processed_count > MaxPackets
      d      == Drained
  IN  /\ pc = "op_data_ready"
      /\ last_call' = "_data_ready"
      /\ data_buffer' = IF ok THEN SubSeq(wire, 1, BNO_HEADER_LEN)
                        ELSE data_buffer
      /\ IF ~ok
         THEN /\ OpGoto("idle", "OSError", "OSError")
              /\ UNCHANGED << ret, readings, enabling, processed_count, op_hist >>
         ELSE IF DataReady(wire) /\ ~capped
         THEN /\ OpGoto("op_read_packet", "none", "none")
              /\ UNCHANGED << ret, readings, enabling, processed_count, op_hist >>
         ELSE /\ OpGoto(d.pc, d.result,
                        IF d.result \in { "none", "returned" } THEN "none"
                        ELSE d.result)
              /\ ret' = d.ret
              /\ readings' = d.readings
              /\ enabling' = d.enabling
              /\ processed_count' = 0
              /\ op_hist' = IF op = "accessor" /\ d.result = "returned"
                               /\ acc_id = BNO_REPORT_SHAKE_DETECTOR
                            THEN HistShakeRead(op_hist) ELSE op_hist
      /\ UNCHANGED << sequence_number, packet_slices, dcd_saved_at,
                      me_calibration_started_at, magnetometer_accuracy,
                      bus_write, now, split, acc_id, calls,
                      two_ended_sequence_numbers, op, start_time, feature_id,
                      initVars >>

\* the body of that loop: _read_packet (PacketError: continue), _handle_packet
OpReadPacket(wire, fail) ==
  LET r      == ReadPacketResult(sequence_number, data_buffer, wire, fail)
      packet == Packet(wire)
      h      == HandlePacket(Store, packet_slices, packet, now)
  IN  /\ pc = "op_read_packet"
      /\ sequence_number' = r.seqs
      /\ data_buffer' = r.buffer
      /\ IF r.error # "none"
         THEN /\ IF r.error = "PacketError"
                 THEN OpGoto("op_data_ready", "none", r.error)
                 ELSE OpGoto("idle", r.error, r.error)
              /\ last_call' = "_read_packet"
              /\ UNCHANGED << packet_slices, storeVars, split, processed_count,
                              op_hist >>
         ELSE /\ HandlePacketStep(packet)
              /\ last_call' = "_handle_packet"
              /\ pc' = IF h.error # "none" THEN "idle" ELSE "op_data_ready"
              /\ result' = IF h.error # "none" THEN h.error ELSE "none"
              /\ processed_count' = IF h.error # "none" THEN processed_count
                                    ELSE processed_count + 1
              /\ op_hist' = HistHandled(op_hist, packet, h.error)
      /\ UNCHANGED << bus_write, now, ret, acc_id, calls,
                      two_ended_sequence_numbers, op, start_time, feature_id,
                      enabling, initVars >>

\* the caller reads a typed accessor
CallRead(report_id, max_calls) ==
  /\ OpBegin("accessor", max_calls)
  /\ acc_id' = report_id
  /\ OpGoto("op_data_ready", "none", "none")
  /\ last_call' = "accessor"
  /\ UNCHANGED << sequence_number, packet_slices, storeVars, data_buffer,
                  bus_write, now, ret, split, two_ended_sequence_numbers,
                  start_time, feature_id, enabling, op_hist, initVars >>

\* enable_feature(feature) up to its first wait: when the dependency of a raw
\* report is missing the recursive call for it runs first
CallEnableFeature(feature, ok, max_calls) ==
  LET first == IF FeatureDependencyMissing(feature, readings)
               THEN RAW_REPORTS[feature] ELSE feature
  IN  /\ OpBegin("enable_feature", max_calls)
      /\ feature_id' = feature
      /\ enabling' = first
      /\ SendPacket(BNO_CHANNEL_CONTROL, SetFeatureReport(first), ok)
      /\ start_time' = now
      /\ last_call' = "_send_packet"
      /\ op_hist' = [ op_hist EXCEPT
                        !.set_features = << first >>,
                        !.dep_absent = /\ feature \in DOMAIN RAW_REPORTS
                                       /\ RAW_REPORTS[feature]
                                            \notin DOMAIN readings ]
      /\ IF ok THEN OpGoto("op_data_ready", "none", "none")
         ELSE OpGoto("idle", "OSError", "OSError")
      /\ UNCHANGED << packet_slices, storeVars, now, ret, acc_id, split,
                      two_ended_sequence_numbers, initVars >>

\* enable_feature after the recursive call returned: the send of its own id
EnableSend(ok) ==
  /\ pc = "enable_send"
  /\ SendPacket(BNO_CHANNEL_CONTROL, SetFeatureReport(feature_id), ok)
  /\ start_time' = now
  /\ last_call' = "_send_packet"
  /\ op_hist' = [ op_hist EXCEPT !.set_features = Append(@, feature_id) ]
  /\ IF ok THEN OpGoto("op_data_ready", "none", "none")
     ELSE OpGoto("idle", "OSError", "OSError")
  /\ UNCHANGED << packet_slices, storeVars, now, ret, acc_id, calls, split,
                  two_ended_sequence_numbers, op, feature_id, enabling,
                  processed_count, initVars >>

\* a command request: the report with the command-local sequence number is
\* sent on the control channel, then the sequence number is incremented
SendCommand(command, command_params, ok) ==
  /\ SendPacket(BNO_CHANNEL_CONTROL,
                InsertCommandRequestReport(
                  command,
                  GetReportSeqId(two_ended_sequence_numbers, COMMAND_REQUEST),
                  command_params),
                ok)
  /\ two_ended_sequence_numbers' =
       IF ok THEN IncrementReportSeq(two_ended_sequence_numbers, COMMAND_REQUEST)
       ELSE two_ended_sequence_numbers
  /\ start_time' = now
  /\ last_call' = "_send_packet"
  /\ IF ok THEN OpGoto("op_data_ready", "none", "none")
     ELSE OpGoto("idle", "OSError", "OSError")
  /\ UNCHANGED << packet_slices, storeVars, now, ret, acc_id, split,
                  feature_id, enabling, initVars >>

\* save_calibration_data() up to its wait
CallSaveCalibrationData(ok, max_calls) ==
  /\ OpBegin("save_calibration_data", max_calls)
  /\ SendCommand(SAVE_DCD, << >>, ok)
  /\ op_hist' = [ op_hist EXCEPT
                    !.cmd_sends = IF ok THEN @ + 1 ELSE @,
                    !.dcd_responded = FALSE ]

\* begin_calibration() and calibration_status: _send_me_command up to its wait
CallSendMeCommand(kind, ok, max_calls) ==
  /\ OpBegin(kind, max_calls)
  /\ SendCommand(ME_CALIBRATE, MeParams(kind), ok)
  /\ op_hist' = [ op_hist EXCEPT
                    !.cmd_sends = IF ok THEN @ + 1 ELSE @,
                    !.me_requested = @ \/ ok,
                    !.me_responded = IF ok THEN FALSE ELSE @ ]

\* the client when __init__ has returned: initialize() succeeded at its first
\* attempt, the three reads of soft_reset() met "no packet" headers and the
\* product-ID response came with sequence 7
Initialized ==
  /\ sequence_number = [ c \in Channels |->
                           IF c = BNO_CHANNEL_EXE THEN 2
                           ELSE IF c = BNO_CHANNEL_CONTROL THEN 7 ELSE 0 ]
  /\ packet_slices = << >>
  /\ readings = EmptyMap
  /\ dcd_saved_at = -1
  /\ me_calibration_started_at = -1
  /\ magnetometer_accuracy = 0
  /\ id_read = TRUE
  /\ data_buffer = WirePacket(BNO_CHANNEL_CONTROL, 7, ProductIdResponse(1))
  /\ bus_write = SendBuffer(BNO_CHANNEL_CONTROL, 7,
                            << SHTP_REPORT_PRODUCT_ID_REQUEST, 0 >>)
  /\ now = 0
  /\ pc = "idle"
  /\ attempt = 0
  /\ read_i = SoftResetReads
  /\ acc_id = 0
  /\ calls = 0
  /\ result = "Ready"
  /\ ret = << >>
  /\ last_call = "_check_id"
  /\ raised = "none"
  /\ split = NoSplit
  /\ seq_hist = NoSeqHist
  /\ init_hist = [ hard_resets |-> 1, soft_resets |-> 1, id_requests |-> 1,
                   responded |-> TRUE, bus_failed |-> FALSE ]
  /\ two_ended_sequence_numbers = [ x \in {} |-> 0 ]
  /\ op = "__init__"
  /\ start_time = 0
  /\ feature_id = 0
  /\ enabling = 0
  /\ processed_count = 0
  /\ wait_start = -1
  /\ op_hist = NoOpHist

\* packets the device presents during one _process_available_packets call
MaxDrain == 1

\* ------------------------------------ specification: the shake accessor
\* enable_feature(shake) and the accessors of shake and acceleration, with a
\* device that acknowledges the shake feature and sends shake and
\* accelerometer reports at any time.  No operation here reads the clock
\* before the device has answered, so the clock stands still.
MaxShakeCalls == 2

ReadIds == { BNO_REPORT_SHAKE_DETECTOR, BNO_REPORT_ACCELEROMETER }

\* an accelerometer report with x = v, y = z = 0
AccelerometerReport(v) ==
  << BNO_REPORT_ACCELEROMETER >> \o Zeros(3) \o PackU16LE(v) \o Zeros(4)

\* shake bitfields: 1 has the x bit of the mask 0x111, 2 has no bit of it
ShakeWires ==
  { ZeroHeader(BNO_CHANNEL_CONTROL, 7),
    WirePacket(BNO_CHANNEL_CONTROL, 7, FeatureResponse(BNO_REPORT_SHAKE_DETECTOR)),
    WirePacket(BNO_CHANNEL_INPUT_SENSOR_REPORTS, 7, ShakeReport(1)),
    WirePacket(BNO_CHANNEL_INPUT_SENSOR_REPORTS, 7, ShakeReport(2)),
    WirePacket(BNO_CHANNEL_INPUT_SENSOR_REPORTS, 7, AccelerometerReport(1)) }


NextShake ==
  \/ \E ok \in BOOLEAN :
       CallEnableFeature(BNO_REPORT_SHAKE_DETECTOR, ok, MaxShakeCalls)
  \/ \E report_id \in ReadIds : CallRead(report_id, MaxShakeCalls)
  \/ \E wire \in ShakeWires, ok \in BOOLEAN : OpDataReady(wire, ok)
  \/ /\ processed_count < MaxDrain
     /\ \E wire \in ShakeWires, fail \in { "none", "header", "body" } :
          OpReadPacket(wire, fail)

SpecShake == Initialized /\ [][NextShake]_vars

\* ------------------------------------------ specification: enable_feature
\* enable_feature of a raw and of a calibrated report, with a device that
\* acknowledges either at any time or never, and a clock.
MaxFeatCalls == 2
MaxFeatNow == 2

FeatIds == { BNO_REPORT_RAW_ACCELEROMETER, BNO_REPORT_ACCELEROMETER }

FeatWires ==
  { ZeroHeader(BNO_CHANNEL_CONTROL, 7) }
  \cup { WirePacket(BNO_CHANNEL_CONTROL, 7, FeatureResponse(f)) : f \in FeatIds }
  \cup { WirePacket(BNO_CHANNEL_INPUT_SENSOR_REPORTS, 7, AccelerometerReport(1)) }


NextFeat ==
  \/ \E feature \in FeatIds, ok \in BOOLEAN :
       CallEnableFeature(feature, ok, MaxFeatCalls)
  \/ \E ok \in BOOLEAN : EnableSend(ok)
  \/ \E wire \in FeatWires, ok \in BOOLEAN : OpDataReady(wire, ok)
  \/ /\ processed_count < MaxDrain
     /\ \E wire \in FeatWires, fail \in { "none", "header", "body" } :
          OpReadPacket(wire, fail)
  \/ Tick(MaxFeatNow)

SpecFeat == Initialized /\ [][NextFeat]_vars

\* ------------------------------------ specification: calibration commands
\* save_calibration_data, begin_calibration and calibration_status, with a
\* device that sends command responses of either status at any time.
MaxCalCalls == 2
MaxCalNow == 3

MeKinds == { "begin_calibration", "calibration_status" }

CalWires ==
  { ZeroHeader(BNO_CHANNEL_CONTROL, 7) }
  \cup { WirePacket(BNO_CHANNEL_CONTROL, 7, CommandResponseReport(c, st))
           : c \in { SAVE_DCD, ME_CALIBRATE }, st \in { 0, 1 } }


NextCal ==
  \/ \E ok \in BOOLEAN : CallSaveCalibrationData(ok, MaxCalCalls)
  \/ \E kind \in MeKinds, ok \in BOOLEAN :
       CallSendMeCommand(kind, ok, MaxCalCalls)
  \/ \E wire \in CalWires, ok \in BOOLEAN : OpDataReady(wire, ok)
  \/ /\ processed_count < MaxDrain
     /\ \E wire \in CalWires, fail \in { "none", "header", "body" } :
          OpReadPacket(wire, fail)
  \/ Tick(MaxCalNow)

SpecCal == Initialized /\ [][NextCal]_vars

\* --------------------------- specification: the command sequence number
\* Command requests one after the other; the device answers during the first
\* MaxCmdSeqTalk calls and is silent afterwards, the clock advances while a
\* call waits.
MaxCmdSends == 257
MaxCmdSeqTalk == 1

CmdSeqTalk == calls <= MaxCmdSeqTalk

CmdSeqWires ==
  { ZeroHeader(BNO_CHANNEL_CONTROL, 7) }
  \cup ( IF CmdSeqTalk
         THEN { WirePacket(BNO_CHANNEL_CONTROL, 255,
                           CommandResponseReport(ME_CALIBRATE, 0)),
                WirePacket(BNO_CHANNEL_CONTROL, 255,
                           CommandResponseReport(SAVE_DCD, 1)) }
         ELSE {} )

\* the bus may fail while the device talks
CmdSeqOk == IF CmdSeqTalk THEN BOOLEAN ELSE { TRUE }


\* time.ticks_ms() advances by one, wrapping at TicksPeriod, while the
\* polling loop of the running operation has not seen its timeout
TickPolling ==
  /\ pc # "idle"
  /\ Elapsed(start_time, now) < DEFAULT_TIMEOUT
  /\ now' = ( now + 1 ) % TicksPeriod
  /\ UNCHANGED << sequence_number, packet_slices, storeVars, id_read,
                  data_buffer, bus_write, ctlVars, last_call, raised, split,
                  seq_hist, init_hist, opVars >>

NextCmdSeq ==
  \/ \E ok \in CmdSeqOk : CallSaveCalibrationData(ok, MaxCmdSends)
  \/ \E ok \in CmdSeqOk : CallSendMeCommand("begin_calibration", ok, MaxCmdSends)
  \/ \E wire \in CmdSeqWires, ok \in CmdSeqOk : OpDataReady(wire, ok)
  \/ /\ processed_count < MaxDrain
     /\ \E wire \in CmdSeqWires : OpReadPacket(wire, "none")
  \/ TickPolling

SpecCmdSeq == Initialized /\ [][NextCmdSeq]_vars

\* ----------------------------------- specification: initialize, on a clock
\* __init__ runs initialize() against any device, with the clock running
\* during the handshake wait: a wait step is taken while the clock test of
\* its loop passes and the timeout is raised when it fails.  The clock wraps
\* at TicksPeriod; it is read often enough for the waits to see their
\* timeouts, so it stands while an expired wait has not yet been ended.
\* The fair specification lets the driver and the clock always take their
\* next step.
InitWires ==
  { ZeroHeader(BNO_CHANNEL_CONTROL, 7),
    << 4, 0, BNO_CHANNEL_CONTROL, 7 >>,
    WirePacket(BNO_CHANNEL_CONTROL, 7, ProductIdResponse(1)),
    WirePacket(BNO_CHANNEL_CONTROL, 7, ProductIdResponse(0)),
    WirePacket(BNO_CHANNEL_EXE, 7, << 1 >>),
    WirePacket(BNO_CHANNEL_INPUT_SENSOR_REPORTS, 7, StepCounterReport(1)) }

\* the clock test that the wait evaluates next fails: `while
\* _elapsed(start_time) < timeout` of _wait_for_packet_type when no
\* _wait_for_packet call runs, of _wait_for_packet otherwise
WaitExpired ==
  IF wait_start = -1
  THEN ~( Elapsed(start_time, now) < WAIT_TYPE_TIMEOUT )
  ELSE ~( Elapsed(wait_start, now) < PACKET_READ_TIMEOUT )

\* time.ticks_ms() advances by one during a wait
TickWait ==
  /\ pc \in { "wait_data_ready", "wait_read_packet" }
  /\ ~WaitExpired
  /\ now' = (now + 1) % TicksPeriod
  /\ UNCHANGED << sequence_number, packet_slices, storeVars, id_read,
                  data_buffer, bus_write, ctlVars, last_call, raised, split,
                  seq_hist, init_hist, opVars >>


NextInit ==
  \/ InitializeLoop
  \/ \E ok \in BOOLEAN : SoftResetSend(ok)
  \/ \E wire \in { ZeroHeader(BNO_CHANNEL_CONTROL, 7),
                  WirePacket(BNO_CHANNEL_EXE, 7, << 1 >>) } :
       SoftResetRead(wire, "none")
  \/ \E ok \in BOOLEAN : CheckId(ok)
  \/ /\ ~WaitExpired
     /\ \E wire \in InitWires : WaitDataReady(wire, TRUE)
  \/ /\ WaitExpired
     /\ WaitTimeout
  \/ \E wire \in InitWires : WaitReadPacket(wire, "none")
  \/ TickWait

InitInit == ClientInit /\ pc = "initialize"
SpecInit == InitInit /\ [][NextInit]_vars

FairInit ==
  /\ SpecInit
  /\ WF_vars(NextInit)
  /\ WF_vars(TickWait)

\* ------------------------------------------- specification: the polling
\* One polling operation, started at tick 0, with a device that at every
\* poll and at every read either has a packet or answers "no packet", for as
\* long as it likes; the clock runs past every timeout.  The fair
\* specification lets the driver and the clock always take their next step.
MaxPollPackets == 11
MaxPollNow == 3

PollWires ==
  { ZeroHeader(BNO_CHANNEL_CONTROL, 7),
    WirePacket(BNO_CHANNEL_INPUT_SENSOR_REPORTS, 7, StepCounterReport(1)),
    WirePacket(BNO_CHANNEL_CONTROL, 7,
               FeatureResponse(BNO_REPORT_STEP_COUNTER)) }

\* the operation that polls is called once, at tick 0
PollCall ==
  /\ now = 0
  /\ \/ CallRead(BNO_REPORT_ACCELEROMETER, 1)
     \/ \E feature \in { BNO_REPORT_ACCELEROMETER,
                          BNO_REPORT_ACTIVITY_CLASSIFIER } :
          CallEnableFeature(feature, TRUE, 1)
     \/ CallSaveCalibrationData(TRUE, 1)
     \/ CallSendMeCommand("begin_calibration", TRUE, 1)

\* the device answers a read with a packet (at most MaxPollPackets of them
\* in one drain) or with the header of "no packet"
PollRead(wire) ==
  /\ DataReady(wire) => processed_count < MaxPollPackets
  /\ OpReadPacket(wire, "none")


NextPoll ==
  \/ PollCall
  \/ \E wire \in PollWires : OpDataReady(wire, TRUE)
  \/ \E wire \in PollWires : PollRead(wire)
  \/ Tick(MaxPollNow)

SpecPoll == Initialized /\ [][NextPoll]_vars

FairPoll ==
  /\ SpecPoll
  /\ WF_vars(Tick(MaxPollNow))
  /\ WF_vars(\E wire \in PollWires : OpDataReady(wire, TRUE))
  /\ WF_vars(\E wire \in PollWires : PollRead(wire))

\* ------------------------------------- specification: the packet header
\* _read_header on any header the device may return and _send_packet of
\* payloads of several lengths, from any value of the channel counters.
MaxHdrCalls == 1

HdrWires ==
  { << lo, hi, c, q >> : lo \in { 0, 4, 20, 255 }, hi \in { 0, 128, 255 },
                        c \in { 0, 2, 5, 7 }, q \in { 5, 255 } }

HdrFrame ==
  UNCHANGED << packet_slices, storeVars, id_read, now, pc, attempt, read_i,
               acc_id, result, ret, split, init_hist, opVars >>

\* _read_header: the first 4 bytes available, decoded
ReadHeader(hdr) ==
  /\ calls < MaxHdrCalls
  /\ calls' = calls + 1
  /\ data_buffer' = hdr
  /\ last_call' = "_read_header"
  /\ raised' = "none"
  /\ UNCHANGED << sequence_number, bus_write, seq_hist >>
  /\ HdrFrame

\* _send_packet of a payload of n bytes
HdrSend(channel, n, ok) ==
  /\ calls < MaxHdrCalls
  /\ calls' = calls + 1
  /\ SendPacket(channel, Zeros(n), ok)
  /\ last_call' = "_send_packet"
  /\ raised' = IF ok THEN "none" ELSE "OSError"
  /\ seq_hist' = IF ok THEN HistSend(seq_hist, channel) ELSE seq_hist
  /\ HdrFrame

InitHdr ==
  \E q \in { 0, 5, 255 } :
    /\ sequence_number = [ c \in Channels |-> q ]
    /\ packet_slices = << >>
    /\ readings = EmptyMap
    /\ dcd_saved_at = -1
    /\ me_calibration_started_at = -1
    /\ magnetometer_accuracy = 0
    /\ id_read = FALSE
    /\ data_buffer = << >>
    /\ bus_write = << >>
    /\ now = 0
    /\ pc = "header"
    /\ attempt = 0
    /\ read_i = 0
    /\ acc_id = 0
    /\ calls = 0
    /\ result = "none"
    /\ ret = << >>
    /\ last_call = "__init__"
    /\ raised = "none"
    /\ split = NoSplit
    /\ seq_hist = NoSeqHist
    /\ init_hist = NoInitHist
    /\ two_ended_sequence_numbers = [ x \in {} |-> 0 ]
    /\ op = "__init__"
    /\ start_time = 0
    /\ feature_id = 0
    /\ enabling = 0
    /\ processed_count = 0
    /\ wait_start = -1
    /\ op_hist = NoOpHist

NextHdr ==
  \/ \E hdr \in HdrWires : ReadHeader(hdr)
  \/ \E channel \in Channels, n \in { 1, 2, 17, DATA_BUFFER_SIZE - BNO_HEADER_LEN }, ok \in BOOLEAN :
       HdrSend(channel, n, ok)

SpecHdr == InitHdr /\ [][NextHdr]_vars

\* ------------------------------- specification: saves on a wrapping clock
\* save_calibration_data called again and again while time.ticks_ms() goes on
\* and wraps at TicksPeriod, with a device that confirms a save or is silent.
MaxSaveCalls == 2

\* time.ticks_ms() advances by one, wrapping at TicksPeriod, between two
\* public operations
TickIdle ==
  /\ pc = "idle"
  /\ now' = ( now + 1 ) % TicksPeriod
  /\ UNCHANGED << sequence_number, packet_slices, storeVars, id_read,
                  data_buffer, bus_write, ctlVars, last_call, raised, split,
                  seq_hist, init_hist, opVars >>

SaveWires ==
  { ZeroHeader(BNO_CHANNEL_CONTROL, 7),
    WirePacket(BNO_CHANNEL_CONTROL, 7, CommandResponseReport(SAVE_DCD, 0)) }

NextSave ==
  \/ CallSaveCalibrationData(TRUE, MaxSaveCalls)
  \/ \E wire \in SaveWires : OpDataReady(wire, TRUE)
  \/ /\ processed_count < MaxDrain
     /\ \E wire \in SaveWires : OpReadPacket(wire, "none")
  \/ TickPolling
  \/ TickIdle

SpecSave == Initialized /\ [][NextSave]_vars

\* ------------------------------------------------ claims on the sequencer
\* C1: on every successful _send_packet on channel c, byte 3 of the outgoing
\* header is the value the channel-c counter held before the call, and after
\* the call the counter is that value plus one modulo 256.
C1_SendUsesCounterThenIncrements ==
  [][ (last_call' = "_send_packet" /\ raised' = "none") =>
        LET c == bus_write'[3]
        IN  /\ c \in Channels
            /\ bus_write'[4] = sequence_number[c]
            /\ sequence_number'[c] = (sequence_number[c] + 1) % 256 ]_vars

\* a send on a channel whose counter was 255: the header carries 255 and the
\* counter is 0 afterwards
C1_Witness ==
  /\ last_call = "_send_packet"
  /\ raised = "none"
  /\ bus_write[4] = 255
  /\ sequence_number[bus_write[3]] = 0

\* C2 as stated: the sequence byte of the next send on channel c depends only
\* on the number of earlier sends on c.
C2_Original_CounterCountsSends ==
  \A c \in Channels : sequence_number[c] = seq_hist.sent[c] % 256

\* C2 amended: the counter of channel c is the sequence field of the last
\* header _read_packet stored for c (0 if none) plus the number of sends on c
\* since then, modulo 256; sends and receives on other channels do not
\* change it.
C2_CounterIsLastReceivedPlusSends ==
  \A c \in Channels :
    sequence_number[c] = (seq_hist.rx[c] + seq_hist.since[c]) % 256

\* a channel that was sent on, then received on, then sent on again, while
\* another channel was used as well
C2_Witness ==
  \E c \in Channels, d \in Channels :
    /\ c # d
    /\ seq_hist.sent[c] > seq_hist.since[c]
    /\ seq_hist.since[c] > 0
    /\ seq_hist.rx[c] # 0
    /\ seq_hist.sent[d] > 0

\* C3: after 256 sends on the same channel its counter is back at the value
\* it had before the first of them.
C3_CounterWrapsAfter256Sends ==
  \A c \in Channels :
    seq_hist.since[c] = 256 => sequence_number[c] = seq_hist.rx[c]

\* 256 sends were made on a channel whose counter started at a received value
C3_Witness ==
  \E c \in Channels : seq_hist.since[c] = 256 /\ seq_hist.rx[c] = 7

\* C4: when _read_packet receives a header with channel c in 0..5 and
\* sequence s, the stored sequence of c is s afterwards and the other five
\* are unchanged, also when the packet is zero-length (PacketError).
C4_ReadStoresSequenceOfItsChannelOnly ==
  [][ (last_call' = "_read_packet" /\ raised' \in { "none", "PacketError" }) =>
        LET c == data_buffer'[3]
            s == data_buffer'[4]
        IN  /\ c \in Channels
            /\ sequence_number'[c] = s
            /\ \A d \in Channels \ { c } :
                 sequence_number'[d] = sequence_number[d] ]_vars

\* a zero-length packet was read on a channel that had been sent on: the
\* counter holds the received sequence, not a successor of the sent one
C4_Witness ==
  /\ last_call = "_read_packet"
  /\ raised = "PacketError"
  /\ seq_hist.sent[data_buffer[3]] > 0
  /\ data_buffer[4] = 7
  /\ sequence_number[data_buffer[3]] = 7

\* -------------------------------------------- claims on the packet handler
\* the payload of the packet in _data_buffer
BufferData == Packet(data_buffer).data

\* the slices the last _separate_batch call appended, in the order appended
AppendedSlices ==
  [ i \in 1 .. (Len(split.slices) - split.from) |->
      split.slices[split.from + i][2] ]

\* C8: splitting a payload made of back-to-back reports with known ids
\* yields one slice per report, each tagged with its id and as long as the
\* table says, and the slices concatenated in the order appended are the
\* first data_length bytes of the payload.
C8_SplitYieldsTheReports ==
  (last_call = "_handle_packet" /\ BufferData \in WholePayloads) =>
    /\ split.error = "none"
    /\ AppendedSlices \in ReportSeqs
    /\ \A i \in 1 .. Len(AppendedSlices) :
         /\ split.slices[split.from + i][1] = AppendedSlices[i][1]
         /\ Len(AppendedSlices[i]) = ReportLength(AppendedSlices[i][1])
    /\ Flatten(AppendedSlices)
         = SubSeq(BufferData, 1, Packet(data_buffer).header.data_length)

\* two step-counter reports back to back were split into two slices, on top
\* of a slice an earlier packet had left in the list
C8_Witness ==
  /\ last_call = "_handle_packet"
  /\ BufferData = StepCounterReport(1) \o StepCounterReport(2)
  /\ split.from = 1
  /\ AppendedSlices = << StepCounterReport(1), StepCounterReport(2) >>

\* C9 as stated, for its own example: after a packet with two step-counter
\* reports has been handled, the stored step count is the one of the report
\* that was first in wire order.
C9_FirstInWireOrderWins ==
  \A a \in StepValues, b \in StepValues :
    ( /\ last_call = "_handle_packet"
      /\ raised = "none"
      /\ BufferData = StepCounterReport(a) \o StepCounterReport(b) )
    => ( /\ BNO_REPORT_STEP_COUNTER \in DOMAIN readings
         /\ readings[BNO_REPORT_STEP_COUNTER] = << "int", a >> )

\* C10: handling a payload whose last report is cut short raises the batch
\* framing error, and the step that raises it changes nothing in the
\* Readings store (nor in the calibration state).
C10_TruncatedBatchRaisesBeforeDispatch ==
  [][ (last_call' = "_handle_packet" /\ Packet(data_buffer').data \in TruncatedPayloads)
        => ( /\ raised' = "BatchFramingError"
             /\ split'.error = "BatchFramingError"
             /\ UNCHANGED storeVars ) ]_vars

\* a step-counter report followed by a cut one was handled while the store
\* held another step count: the error was raised and the count was kept
C10_Witness ==
  /\ last_call = "_handle_packet"
  /\ raised = "BatchFramingError"
  /\ BufferData = StepCounterReport(1) \o SubSeq(StepCounterReport(2), 1, 11)
  /\ BNO_REPORT_STEP_COUNTER \in DOMAIN readings
  /\ readings[BNO_REPORT_STEP_COUNTER] = << "int", 2 >>

\* ----------------------------------------- claims on the public operations
\* C5: when the device never responds to the product-ID request (a request
\* was sent, no product-ID response was read, no bus transaction failed),
\* initialize() ends only with InitializationFailed, after exactly 3
\* attempts, each with a hard reset, a soft reset and one product-ID
\* request; it never starts a fourth attempt.
C5_ThreeAttemptsThenInitializationFailed ==
  /\ attempt <= InitAttempts
  /\ init_hist.hard_resets <= InitAttempts
  /\ ( /\ pc = "idle"
       /\ ~id_read
       /\ init_hist.id_requests > 0
       /\ ~init_hist.responded
       /\ ~init_hist.bus_failed )
     => ( /\ result = "InitializationFailed"
          /\ attempt = InitAttempts
          /\ init_hist.hard_resets = InitAttempts
          /\ init_hist.soft_resets = InitAttempts
          /\ init_hist.id_requests = InitAttempts )

\* C6: a bus error or a batch framing error raised in a step of a public
\* operation ends that operation with this error (so the operation makes no
\* further bus transaction).
C6_FatalErrorsPropagate ==
  raised \in { "OSError", "BatchFramingError" } =>
    (pc = "idle" /\ result = raised)

\* C7: a framing error (PacketError of _read_packet) met in a polling loop
\* sends the loop back to its poll: _process_available_packets polls
\* _data_ready again, the handshake wait polls _data_ready again within the
\* same initialization attempt.
C7_FramingErrorPollsAgain ==
  [][ (pc \in { "poll_read_packet", "wait_read_packet" }
       /\ raised' = "PacketError")
        => ( /\ pc' = IF pc = "poll_read_packet" THEN "poll_data_ready"
                      ELSE "wait_data_ready"
             /\ attempt' = attempt ) ]_vars

\* ------------------------------------------ claims on the Readings store
\* a typed accessor has returned a value
AccessorReturned(report_id) ==
  /\ op = "accessor"
  /\ acc_id = report_id
  /\ pc = "idle"
  /\ result = "returned"

\* the stored shake flag is set (the truth value the driver tests)
ShakeSet(stored) ==
  /\ BNO_REPORT_SHAKE_DETECTOR \in DOMAIN stored
  /\ Truthy(stored[BNO_REPORT_SHAKE_DETECTOR])

\* C11: a report id is a key of the Readings store only if an
\* acknowledgement of that feature was processed, so an accessor returns a
\* value only for an acknowledged feature and fails with ReportNotEnabled
\* otherwise, whatever sensor reports the device sent.
C11_ReadingsOnlyOfAcknowledgedFeatures ==
  /\ \A id \in DOMAIN readings : id \in op_hist.acked
  /\ \A id \in ReadIds : AccessorReturned(id) => id \in op_hist.acked

\* C12: the first read of shake after a shake report with nonzero masked
\* bitfield yields a true value, and a read right after it, with no shake
\* report processed in between, yields a false one.
C12_ShakeReadsTrueThenFalse ==
  AccessorReturned(BNO_REPORT_SHAKE_DETECTOR) =>
    /\ (op_hist.read_kind = "first" => Truthy(ret))
    /\ (op_hist.read_kind = "second" => ~Truthy(ret))

\* C13: the stored shake flag sticks: a step that processes a shake report
\* with nonzero masked bitfield leaves the flag set, no step other than a
\* read of the shake accessor turns a set flag off (in particular not a shake
\* report with zero masked bitfield), and the read that returns turns it off.
C13_ShakeFlagSticksUntilRead ==
  [][ LET reads   == /\ op = "accessor"
                     /\ acc_id = BNO_REPORT_SHAKE_DETECTOR
                     /\ pc = "op_data_ready"
                     /\ result' = "returned"
          shaken  == /\ last_call' = "_handle_packet"
                     /\ raised' = "none"
                     /\ pc = "op_read_packet"
                     /\ Packet(data_buffer').data[1] = BNO_REPORT_SHAKE_DETECTOR
                     /\ ParseShakeReport(Packet(data_buffer').data)[2] = 1
      IN  /\ (ShakeSet(readings) /\ ~reads) => ShakeSet(readings')
          /\ shaken => ShakeSet(readings')
          /\ reads => ~ShakeSet(readings') ]_vars

\* the flag was set by a decoded shake and a shake report with zero masked
\* bitfield has just been processed: the flag is still the decoded true
C13_Witness ==
  /\ last_call = "_handle_packet"
  /\ raised = "none"
  /\ BufferData = ShakeReport(2)
  /\ op_hist.shake_pending
  /\ readings[BNO_REPORT_SHAKE_DETECTOR] = << "bool", 1 >>

\* C14: the shake accessor returns a true value only if a shake report with
\* nonzero masked bitfield was processed since the last read; after the
\* acknowledgement alone it returns false.
C14_ShakeTrueOnlyAfterShakeReport ==
  (AccessorReturned(BNO_REPORT_SHAKE_DETECTOR) /\ Truthy(ret))
    => op_hist.read_kind = "first"

\* --------------------------------------------- claims on enable_feature
\* C15: enable_feature of a raw report id hands the set-feature command of
\* the calibrated report to _send_packet exactly when that id is not a key of
\* the Readings store at the call, as the first command of the call; the
\* command of the raw id itself is sent only when the calibrated id is a key
\* of the store, after the command of the calibrated id if there was one.
C15_RawFeatureEnablesDependencyFirst ==
  [][ ( /\ op' = "enable_feature"
        /\ feature_id' \in DOMAIN RAW_REPORTS
        /\ \/ pc = "idle" /\ calls' # calls
           \/ pc = "enable_send" /\ pc' # pc )
        => LET r    == feature_id'
               d    == RAW_REPORTS[r]
               sent == op_hist'.set_features
               last == sent[Len(sent)]
           IN  /\ bus_write' # bus_write => bus_write'[6] = last
               /\ pc = "idle" => (last = d <=> d \notin DOMAIN readings)
               /\ last = d => (d \notin DOMAIN readings /\ sent = << d >>)
               /\ last = r =>
                    /\ d \in DOMAIN readings
                    /\ sent = IF op_hist'.dep_absent THEN << d, r >>
                              ELSE << r >> ]_vars

\* enable_feature(raw accelerometer) found the accelerometer missing, sent
\* its command, saw it acknowledged and then sent the raw command
C15_Witness ==
  /\ op = "enable_feature"
  /\ feature_id = BNO_REPORT_RAW_ACCELEROMETER
  /\ op_hist.dep_absent
  /\ op_hist.set_features =
       << BNO_REPORT_ACCELEROMETER, BNO_REPORT_RAW_ACCELEROMETER >>
  /\ bus_write[6] = BNO_REPORT_RAW_ACCELEROMETER
  /\ BNO_REPORT_ACCELEROMETER \in op_hist.acked

CommandResponseStep(command) ==
  /\ pc = "op_read_packet"
  /\ last_call' = "_handle_packet"
  /\ Packet(data_buffer').data[1] = COMMAND_RESPONSE
  /\ Packet(data_buffer').data[3] = command

\* C17: save_calibration_data() returns normally if and only if a
\* zero-status SAVE_DCD response was processed after its request was sent
\* (also one processed in the clock tick in which the call started);
\* otherwise it ends with the calibration timeout.
C17_SaveReturnsIffSavedInTime ==
  (op = "save_calibration_data" /\ pc = "idle") =>
    /\ result = "returned" => op_hist.dcd_responded
    /\ result = "CalibrationTimeout" => ~op_hist.dcd_responded

\* C18: a SAVE_DCD command response with status zero sets the DCD-saved
\* timestamp to the clock; one with nonzero status raises
\* CalibrationSaveFailed, which ends the running operation, and leaves both
\* calibration timestamps as they were.
C18_SaveResponseSetsOrFails ==
  [][ CommandResponseStep(SAVE_DCD) =>
        IF Packet(data_buffer').data[6] = 0
        THEN /\ dcd_saved_at' = now
             /\ raised' = "none"
             /\ UNCHANGED me_calibration_started_at
        ELSE /\ raised' = "CalibrationSaveFailed"
             /\ result' = "CalibrationSaveFailed"
             /\ pc' = "idle"
             /\ UNCHANGED << dcd_saved_at, me_calibration_started_at >> ]_vars

\* both timestamps were set by earlier responses and a later SAVE_DCD
\* response with nonzero status raised: they are still at their values
C18_Witness ==
  /\ last_call = "_handle_packet"
  /\ raised = "CalibrationSaveFailed"
  /\ BufferData = CommandResponseReport(SAVE_DCD, 1)
  /\ dcd_saved_at # -1
  /\ me_calibration_started_at # -1
  /\ now > dcd_saved_at

\* C19: after an ME_CALIBRATE request the first zero-status ME_CALIBRATE
\* response sets the ME-calibration-started timestamp, further zero-status
\* responses before the next request do not change it, and responses with
\* nonzero status never change it.
C19_MeTimestampSetOncePerCycle ==
  [][ (CommandResponseStep(ME_CALIBRATE) /\ op_hist.me_requested) =>
        IF Packet(data_buffer').data[6] = 0 /\ ~op_hist.me_responded
        THEN me_calibration_started_at' = now
        ELSE UNCHANGED me_calibration_started_at ]_vars

\* ------------------------------ claims on the command sequence number
\* C20: every command request written to the bus carries in byte 1 the
\* command-local sequence number, which is the number of command requests
\* sent before it modulo 256 (0 for the first), whatever the channel
\* sequence number is; the number moves by one with each command sent and
\* no other step, the handling of received packets included, changes it.
C20_CommandSequenceCountsSends ==
  [][ /\ op_hist'.cmd_sends # op_hist.cmd_sends =>
           /\ op_hist'.cmd_sends = op_hist.cmd_sends + 1
           /\ Packet(bus_write').header.channel_number = BNO_CHANNEL_CONTROL
           /\ Packet(bus_write').data[1] = COMMAND_REQUEST
           /\ Packet(bus_write').data[2] = op_hist.cmd_sends % SeqModulus
           /\ GetReportSeqId(two_ended_sequence_numbers', COMMAND_REQUEST)
                = op_hist'.cmd_sends % SeqModulus
      /\ op_hist'.cmd_sends = op_hist.cmd_sends =>
           GetReportSeqId(two_ended_sequence_numbers', COMMAND_REQUEST)
             = GetReportSeqId(two_ended_sequence_numbers, COMMAND_REQUEST)
    ]_vars

\* the 257th command request has just been written: its command-local
\* number has wrapped to 0 while its channel sequence number is another value
C20_Witness ==
  /\ last_call = "_send_packet"
  /\ op_hist.cmd_sends = SeqModulus + 1
  /\ Packet(bus_write).data[1] = COMMAND_REQUEST
  /\ Packet(bus_write).data[2] = 0
  /\ Packet(bus_write).header.sequence_number # 0

\* ------------------------------------------ claims on the packet header
\* the header _read_header has just decoded
DecodedHeader == HeaderFromBuffer(data_buffer)

\* C21: a header whose channel byte is above 5, or whose byte count is
\* 0xFFFF with sequence 0xFF, is classified as an error by is_error, and a
\* valid zero-length header is not.
C21_ErrorHeadersAreErrors ==
  last_call = "_read_header" =>
    /\ ( \/ data_buffer[3] > 5
         \/ data_buffer[1] = 255 /\ data_buffer[2] = 255 /\ data_buffer[4] = 255 )
       => IsError(DecodedHeader)
    /\ ( data_buffer[1] = 0 /\ data_buffer[2] = 0 /\ data_buffer[3] <= 5 )
       => ~IsError(DecodedHeader)

\* C22: decoding any 4 bytes gives the byte count of bytes 0-1 in
\* little-endian order with bit 15 cleared, the channel of byte 2, the
\* sequence of byte 3 and a data length of the byte count less 4, not below 0.
C22_HeaderDecoding ==
  last_call = "_read_header" =>
    LET raw        == data_buffer[1] + 256 * data_buffer[2]
        byte_count == IF raw >= 32768 THEN raw - 32768 ELSE raw
    IN  /\ DecodedHeader.packet_byte_count = byte_count
        /\ DecodedHeader.channel_number = data_buffer[3]
        /\ DecodedHeader.sequence_number = data_buffer[4]
        /\ DecodedHeader.data_length
             = ( IF byte_count > 4 THEN byte_count - 4 ELSE 0 )

\* a header with the continuation bit set has been decoded
C22_Witness ==
  /\ last_call = "_read_header"
  /\ data_buffer = << 20, 128, 2, 5 >>
  /\ DecodedHeader = [ channel_number |-> 2, sequence_number |-> 5,
                       data_length |-> 16, packet_byte_count |-> 20 ]

\* C23: the header of the buffer a send on channel c writes decodes to
\* channel c, the sequence the channel counter held, and a byte count of the
\* payload length plus 4.
C23_SendHeaderRoundTrip ==
  [][ \A c \in Channels :
        ( last_call' = "_send_packet"
          /\ seq_hist'.sent[c] = seq_hist.sent[c] + 1 ) =>
          LET header == HeaderFromBuffer(bus_write')
          IN  /\ header.channel_number = c
              /\ header.sequence_number = sequence_number[c]
              /\ header.packet_byte_count = Len(bus_write')
              /\ header.data_length = Len(bus_write') - BNO_HEADER_LEN
              /\ data_buffer' = bus_write' ]_vars

\* the largest payload the buffer holds was sent with sequence 255
C23_Witness ==
  /\ pc = "header"
  /\ last_call = "_send_packet"
  /\ raised = "none"
  /\ Len(bus_write) = DATA_BUFFER_SIZE
  /\ HeaderFromBuffer(bus_write)
       = [ channel_number |-> 5, sequence_number |-> 255,
           data_length |-> DATA_BUFFER_SIZE - BNO_HEADER_LEN,
           packet_byte_count |-> DATA_BUFFER_SIZE ]

\* ----------------------------------------- claims on the Readings store
\* C24: no step removes a key of the Readings store, and the read of the
\* shake accessor that returns leaves the key in place with the value false.
C24_ReadingsKeysOnlyGrow ==
  [][ LET reads == /\ op = "accessor"
                   /\ acc_id = BNO_REPORT_SHAKE_DETECTOR
                   /\ pc = "op_data_ready"
                   /\ result' = "returned"
      IN  /\ DOMAIN readings \subseteq DOMAIN readings'
          /\ reads => /\ BNO_REPORT_SHAKE_DETECTOR \in DOMAIN readings'
                      /\ readings'[BNO_REPORT_SHAKE_DETECTOR] = << "bool", 0 >>
                      /\ DOMAIN readings' = DOMAIN readings ]_vars

\* a read of shake returned a true value with the accelerometer entry
\* present: both keys are still there and the shake flag is false
C24_Witness ==
  /\ AccessorReturned(BNO_REPORT_SHAKE_DETECTOR)
  /\ Truthy(ret)
  /\ BNO_REPORT_ACCELEROMETER \in DOMAIN readings
  /\ readings[BNO_REPORT_SHAKE_DETECTOR] = << "bool", 0 >>

\* ------------------------------------------------ claims on the polling
\* C25: one _process_available_packets call of enable_feature reads and
\* dispatches at most 10 packets (processed_count counts them).
C25_DrainHandlesAtMostMaxPackets ==
  op = "enable_feature" => processed_count <= MaxPackets

\* C26: a polling operation that is still running when the clock is past
\* its timeout ends, by returning or by raising.
C26_PollingEndsAfterTimeout ==
  ( pc # "idle" /\ now = MaxPollNow ) ~> ( pc = "idle" )

\* --------------------------------------- claims on the handshake wait
\* C27: in the wait for the product-ID response every received packet is
\* either returned to the caller without being dispatched (control channel
\* and the report id asked for), or dropped with the Readings store
\* unchanged (command or executable channel), or dispatched once with the
\* wait going on; and when the clock test of the wait fails, the wait raises.
C27_WaitHandlesEveryPacket ==
  [][ LET new_packet == Packet(data_buffer')
          channel    == new_packet.header.channel_number
          matches    == /\ channel = BNO_CHANNEL_CONTROL
                        /\ Len(new_packet.data) > 0
                        /\ new_packet.data[1] = SHTP_REPORT_PRODUCT_ID_RESPONSE
          dispatched == HandlePacket(Store, packet_slices, new_packet, now)
      IN  /\ ( pc = "wait_read_packet" /\ last_call' # "_read_packet" ) =>
               IF matches
               THEN /\ last_call' = "_check_id"
                    /\ UNCHANGED << readings, packet_slices, split >>
               ELSE IF channel \in { BNO_CHANNEL_EXE, BNO_CHANNEL_SHTP_COMMAND }
               THEN /\ pc' = "wait_data_ready"
                    /\ raised' = "none"
                    /\ UNCHANGED << readings, packet_slices, split >>
               ELSE /\ last_call' = "_handle_packet"
                    /\ readings' = dispatched.st.readings
                    /\ packet_slices' = dispatched.slices
                    /\ pc' = "wait_data_ready"
                    /\ raised' = "none"
          /\ ( pc = "wait_data_ready" /\ WaitExpired /\ pc' # pc ) =>
               raised' = "Timeout" ]_vars

\* C28: initialize() terminates, whatever the device does, when the clock
\* advances.
C28_InitializeTerminates == <>( pc = "idle" )

\* ------------------------------------------------ claims on soft_reset
\* the reset command as _send_packet writes it on the executable channel
ResetCommand(seqs) ==
  SendBuffer(BNO_CHANNEL_EXE, seqs[BNO_CHANNEL_EXE], << BNO08X_CMD_RESET >>)

\* C29: soft_reset() writes the 1-byte reset command on the executable
\* channel twice, then makes 3 read attempts whatever the device returns
\* (a zero-length packet included) as long as the bus works, and after the
\* third attempt the handshake of the same initialize() attempt follows.
C29_SoftResetSendsTwiceReadsThrice ==
  [][ /\ ( pc = "soft_reset_send1" /\ raised' = "none" ) =>
           /\ bus_write' = ResetCommand(sequence_number)
           /\ pc' = "soft_reset_send2"
      /\ ( pc = "soft_reset_send2" /\ raised' = "none" ) =>
           /\ bus_write' = ResetCommand(sequence_number)
           /\ pc' = "soft_reset_read"
           /\ read_i' = 0
      /\ ( pc = "soft_reset_read" /\ raised' # "OSError" ) =>
           /\ read_i < SoftResetReads
           /\ read_i' = read_i + 1
           /\ pc' = IF read_i' < SoftResetReads THEN "soft_reset_read"
                    ELSE "check_id"
           /\ UNCHANGED << attempt, bus_write, result >> ]_vars

\* ---------------------------------------- claims on begin_calibration
\* C30: begin_calibration() sends one ME_CALIBRATE request on the control
\* channel, never raises a timeout error, returns before the timeout only
\* after a zero-status ME_CALIBRATE response processed at a tick later than
\* that of its start, and does not go on polling once the timeout has
\* elapsed.
C30_BeginCalibrationPollsAtMostTimeout ==
  /\ []( op = "begin_calibration" =>
           /\ pc # "idle" =>
                /\ Packet(bus_write).header.channel_number = BNO_CHANNEL_CONTROL
                /\ Packet(bus_write).data[1] = COMMAND_REQUEST
                /\ Packet(bus_write).data[3] = ME_CALIBRATE
           /\ pc = "idle" =>
                /\ result # "CalibrationTimeout"
                /\ ( result = "returned"
                     /\ Elapsed(start_time, now) < DEFAULT_TIMEOUT ) =>
                     /\ op_hist.me_responded
                     /\ me_calibration_started_at # -1
                     /\ TicksDiff(me_calibration_started_at, start_time) > 0 )
  /\ ( /\ op = "begin_calibration"
       /\ pc # "idle"
       /\ ~( Elapsed(start_time, now) < DEFAULT_TIMEOUT ) ) ~> ( pc = "idle" )

\* ------------------------------------------- claims on the dispatcher
\* C31: handling a packet performs no bus write and leaves the channel
\* sequence counters and the command sequence map unchanged; dispatching a
\* sensor report (id < 0xF0) changes no Readings entry other than the one
\* keyed by its own report id, so the entries a handling step changes are
\* keyed by the ids of the slices it had to dispatch.
C31_DispatchTouchesOnlyItsEntry ==
  [][ last_call' = "_handle_packet" =>
        /\ UNCHANGED << sequence_number, two_ended_sequence_numbers,
                        bus_write >>
        /\ \A rep \in BatchReports :
             LET after == ProcessReport(Store, rep[1], rep, now).st.readings
             IN  rep[1] < ControlReportFloor =>
                   /\ DOMAIN after = (DOMAIN readings) \cup { rep[1] }
                   /\ \A k \in (DOMAIN readings) \ { rep[1] } :
                        after[k] = readings[k]
        /\ DOMAIN readings \subseteq DOMAIN readings'
        /\ \A k \in DOMAIN readings' :
             ( k \notin DOMAIN readings \/ readings'[k] # readings[k] ) =>
               \E i \in 1 .. Len(split'.slices) :
                 split'.slices[i][1] = k ]_vars

\* a step-counter report was dispatched while the store held a shake flag:
\* the count is stored and the flag is still there
C31_Witness ==
  /\ last_call = "_handle_packet"
  /\ raised = "none"
  /\ BufferData = StepCounterReport(2)
  /\ DOMAIN readings = { BNO_REPORT_STEP_COUNTER, BNO_REPORT_SHAKE_DETECTOR }
  /\ readings[BNO_REPORT_STEP_COUNTER] = << "int", 2 >>
  /\ readings[BNO_REPORT_SHAKE_DETECTOR] = << "bool", 1 >>

\* ------------------------------------ claims on the set-feature command
\* C32: the set-feature command of enable_feature(id, interval) is 17 bytes:
\* byte 0 = 0xFD, byte 1 = id, bytes 2-4 = 0, bytes 5-8 = the interval as
\* little-endian u32, bytes 9-12 = 0, bytes 13-16 = the config as
\* little-endian u32, the config being 0x1FF for the activity classifier and
\* 0 for every other feature id; it is sent on the control channel.
C32_SetFeatureCommandLayout ==
  LET U32LE(b, off) == U16LE(b, off) + 65536 * U16LE(b, off + 2)
      Layout(d, id, interval) ==
        /\ Len(d) = 17
        /\ d[1] = 253
        /\ d[2] = id
        /\ \A i \in { 3, 4, 5, 10, 11, 12, 13 } : d[i] = 0
        /\ U32LE(d, 5) = interval
        /\ U32LE(d, 13) = IF id = BNO_REPORT_ACTIVITY_CLASSIFIER
                          THEN 511 ELSE 0
  IN  /\ \A id \in { BNO_REPORT_ACCELEROMETER, BNO_REPORT_ACTIVITY_CLASSIFIER,
                     255 },
            interval \in { 0, 1, 65536, 2147483647 } :
           Layout(GetFeatureEnableReport(
                    id, interval,
                    IF id = BNO_REPORT_ACTIVITY_CLASSIFIER
                    THEN ENABLED_ACTIVITIES ELSE 0),
                  id, interval)
      /\ ( op = "enable_feature" /\ last_call = "_send_packet"
           /\ raised = "none" ) =>
           /\ Packet(bus_write).header.channel_number = BNO_CHANNEL_CONTROL
           /\ Packet(bus_write).header.data_length = 17
           /\ Layout(Packet(bus_write).data, enabling, DEFAULT_REPORT_INTERVAL)

\* enable_feature for the activity classifier has sent its command: the
\* config bytes are FF 01 00 00
C32_Witness ==
  /\ op = "enable_feature"
  /\ last_call = "_send_packet"
  /\ raised = "none"
  /\ enabling = BNO_REPORT_ACTIVITY_CLASSIFIER
  /\ SubSeq(Packet(bus_write).data, 14, 17) = << 255, 1, 0, 0 >>

\* ------------------------------------------- claims on the receive path
\* C33: whatever header the device returns, a read accesses the six-entry
\* channel sequence list only at the indices 0..5: it never raises the error
\* of an out-of-range index, and a header whose channel byte is above 5 is
\* not reported as a readable packet by _data_ready.
C33_ReceiveStaysInRange ==
  [][ last_call' = "_read_packet" =>
        /\ raised' # "IndexError"
        /\ DOMAIN sequence_number' = Channels
        /\ \A hdr \in { ErrorHeader, << 20, 0, 7, 0 >> } : ~DataReady(hdr) ]_vars

\* ------------------------------------------ claims on failed handling
\* C34: when _handle_packet has finished, normally or by raising, the
\* pending-slice list is empty, so the handling of a packet starts with an
\* empty list and dispatches slices of that packet only.
C34_NoPendingSlicesAfterHandling ==
  last_call = "_handle_packet" =>
    /\ Len(packet_slices) = 0
    /\ split.from = 0

\* C35: whatever the payload, the handling of a packet completes or fails
\* with the batch framing error or the calibration save failure; a report
\* id of neither length table, a stability classification above 4 and an
\* activity "most likely" index above 8 give no other failure.
C35_HandlingFailsOnlyAsSpecified ==
  LET Handled(payload) ==
        HandlePacket(Store, << >>,
                     Packet(WirePacket(BNO_CHANNEL_INPUT_SENSOR_REPORTS, 0,
                                       payload)), now).error
      Specified == { "none", "BatchFramingError", "CalibrationSaveFailed" }
  IN  last_call = "_handle_packet" =>
        /\ raised \in Specified
        /\ Handled(UnknownReport) \in Specified
        /\ Handled(<< BNO_REPORT_STABILITY_CLASSIFIER, 0, 0, 0, 5, 0 >>)
             \in Specified
        /\ Handled(<< BNO_REPORT_ACTIVITY_CLASSIFIER, 0, 0, 0, 0, 9 >>
                   \o Zeros(10)) \in Specified

\* --------------------------------------- claims on a stale save stamp
\* C36: a DCD-saved timestamp left by an earlier save cycle never satisfies
\* a later save_calibration_data() call: a call returns normally only if a
\* zero-status SAVE_DCD response was processed after the call started.
C36_StaleSaveStampNeverSatisfies ==
  ( op = "save_calibration_data" /\ pc = "idle" /\ result = "returned" ) =>
    op_hist.dcd_responded

\* ------------------------------------------------ claims on failed sends
\* C37: when the bus write of a command request fails, the error leaves the
\* operation and neither the sequence counter of the control channel nor the
\* command-local sequence counter advances; every command request is sent
\* with the two counters as they stand, so the next one reuses the numbers.
C37_FailedSendKeepsCounters ==
  [][ ( /\ calls' # calls
        /\ last_call' = "_send_packet"
        /\ op' \in { "save_calibration_data", "begin_calibration",
                     "calibration_status" } ) =>
        IF raised' = "OSError"
        THEN /\ UNCHANGED << sequence_number, two_ended_sequence_numbers,
                             bus_write >>
             /\ result' = "OSError"
             /\ pc' = "idle"
        ELSE /\ Packet(bus_write').header.channel_number = BNO_CHANNEL_CONTROL
             /\ Packet(bus_write').header.sequence_number
                  = sequence_number[BNO_CHANNEL_CONTROL]
             /\ Packet(bus_write').data[2]
                  = GetReportSeqId(two_ended_sequence_numbers, COMMAND_REQUEST)
    ]_vars

\* the second command request failed on the bus after the first one was
\* sent: the command-local counter still is 1 and the last bytes written are
\* those of the first request
C37_Witness ==
  /\ last_call = "_send_packet"
  /\ raised = "OSError"
  /\ calls = 2
  /\ op_hist.cmd_sends = 1
  /\ GetReportSeqId(two_ended_sequence_numbers, COMMAND_REQUEST) = 1
  /\ Packet(bus_write).data[2] = 0

\* ------------------------------------- claims on the acknowledgement
\* C38: processing a feature-acknowledgement report for feature id f sets
\* Readings[f] to the seed value of f whatever the store held for f (a
\* decoded reading, a shake flag or nothing) and leaves the other entries as
\* they were.
C38_AcknowledgementReseeds ==
  [][ ( /\ pc = "op_read_packet"
        /\ last_call' = "_handle_packet"
        /\ raised' = "none"
        /\ Packet(data_buffer').data[1] = GET_FEATURE_RESPONSE ) =>
        LET f == Packet(data_buffer').data[2]
        IN  /\ DOMAIN readings' = (DOMAIN readings) \cup { f }
            /\ readings'[f] = InitialReport(f)
            /\ \A k \in (DOMAIN readings) \ { f } : readings'[k] = readings[k]
    ]_vars

\* a read of shake had returned true, which left a false flag in the store,
\* and an acknowledgement for the shake detector was processed during a later
\* operation: the store holds the seed of the shake detector
C38_Witness ==
  /\ last_call = "_handle_packet"
  /\ raised = "none"
  /\ pc # "idle"
  /\ BufferData = FeatureResponse(BNO_REPORT_SHAKE_DETECTOR)
  /\ ret = << "bool", 1 >>
  /\ readings[BNO_REPORT_SHAKE_DETECTOR] = << "vec", 0, 0, 0 >>

====
